---- MODULE Spec2Model ----
(***************************************************************************)
(* Verification model of kolosys/axon: the resilient WebSocket client,     *)
(* its offline message queue, its lifecycle state machine and the          *)
(* connection's write path.                                                *)
(*                                                                         *)
(* Eight specifications share this module:                                  *)
(*   SpecQueue  - MessageQueue under concurrent Enqueue/Flush/Clear/Close  *)
(*   SpecFifo   - MessageQueue under Enqueue and Flush only                *)
(*   SpecConn   - one Conn: Write, ping loop, pong reply in Read, Close    *)
(*   SpecClient - Client: Connect, read loop, reconnect tasks, Close       *)
(*   SpecWrite  - Client.Write on a connected client next to the read      *)
(*                loop, the reconnect tasks and Close                      *)
(*   SpecTasks  - Client: a second ConnectWithReadLoop, two read loops,    *)
(*                the reconnect tasks and Close                            *)
(*   SpecBackoff - the reconnector's attempt counter and delays            *)
(*   SpecState  - the stateManager: concurrent transitions and the         *)
(*                notification of the subscribed handlers                  *)
(***************************************************************************)
EXTENDS Integers, Sequences, FiniteSets, TLC

(***************************************************************************)
(* Bounds                                                                  *)
(***************************************************************************)
\* maxSize of the MessageQueue under test (ClientOptions.QueueSize)
QueueSize == 2
\* total number of Enqueue calls (accepted or rejected) explored
MaxEnqueueCalls == 3

\* total number of dials started by Connect calls and reconnect attempts
MaxDials == 3
\* total number of transition / forceTransition calls explored when the
\* stateManager is checked on its own
MaxTransitions == 3
\* total number of Client.Write calls explored
MaxWrites == 2
\* ReconnectConfig.MaxAttempts of the client under test
MaxAttempts == 1
\* consecutive attempts explored when the backoff is checked on its own
MaxBackoffSteps == 5
\* values of r.rand.Float64() explored: n / JitterSteps for n in 0..JitterSteps-1
JitterSteps == 4
\* frames one connection writes
MaxFrames == 2
\* frames the Read calls of one connection take from the transport
MaxInFrames == 3
\* c.upgrader.maxFrameSize and c.upgrader.maxMessageSize, in bytes
MaxFrameSize == 5
MaxMessageSize == 5
\* the 125 payload bytes of a control frame, in the scale of the model's
\* payloads: above every control payload the program writes, below
\* MaxFrameSize
MaxControlPayload == 4

(***************************************************************************)
(* MessageQueue state (part_002: type MessageQueue)                        *)
(***************************************************************************)
VARIABLES
  mq_queue,      \* mq.queue: sequence of queuedMessage [id, ctx]
  mq_maxSize,    \* mq.maxSize
  mq_closed,     \* mq.closed
  mq_dropped,    \* mq.dropped
  mq_enqueued,   \* mq.enqueued
  mq_sent,       \* mq.sent
  errCh,         \* per entry id: the outcomes sent on its errCh, in order
  chClosed,      \* per entry id: number of close(errCh) calls
  sendLog,       \* calls of sendFn made by Flush: sequence of [by, id]
  flushing,      \* per thread: [batch, i, nExp] of the Flush it is running
  ctxDone,       \* set of caller contexts that are cancelled
  enqCalls,      \* number of Enqueue calls begun
  enqRejected,   \* number of Enqueue calls rejected with ErrQueueFull
  mq_closeDone,  \* a Close call has run its Clear and returned
  qpc,           \* SpecQueue threads: position
  qret           \* SpecQueue: result of the last Enqueue that returned

(***************************************************************************)
(* Client state (client.go: type Client) and the tasks that act on it      *)
(***************************************************************************)
VARIABLES
  state,         \* c.state: the stateManager's atomic state
  conn,          \* c.conn: installed connection, 0 = nil
  connClosed,    \* per dialed connection: Conn.closed
  connCloseCode, \* per dialed connection: Conn.closeCode, 0 = not set
  connNetClosed, \* per dialed connection: its transport was closed
  nconn,         \* number of connections dialed successfully
  dials,         \* number of dials started
  hasQueue,      \* c.queue != nil (QueueSize > 0)
  ctxCancelled,  \* c.ctx is cancelled
  wg,            \* c.wg counter
  clpc,          \* Client.Close: position inside closeOnce.Do
  closeLog,      \* steps Client.Close has performed, in order
  closeAgain,    \* a Close call after the first one has returned nil
  tpc,           \* Connect callers and reconnect tasks: position
  cret,          \* result of the Connect call that returned last
  clate,         \* Connect callers whose running call began after Close returned
  rlpc,          \* read loops: position; in the on_error branch, the error
  attempts,      \* c.reconnector.attempts
  lastConnect,   \* c.reconnector.lastConnect: "zero", "recent", or "old" (ResetAfter ago or more)
  delay,         \* the delay attempt computed last, in milliseconds
  config,        \* c.reconnector.config: delays in milliseconds, the multiplier a fraction
  wpc,           \* Write callers: position
  wobs,          \* Write callers: the state read at the top of Write
  wret,          \* Write callers: last result
  wentry,        \* Write callers: id of the entry they enqueued, 0 = none
  wvia,          \* Write callers: what the call did with the message:
                 \* "conn" = handed to Conn.Write, "queue" = enqueued
  writes,        \* number of Write calls begun
  seen,          \* per subscribed state handler: the StateChange events it was called with
  notifying,     \* per caller of the stateManager: the change it is notifying and the next handler
  applied,       \* the changes applied to the atomic state, in order
  smCalls,       \* number of transition / forceTransition calls begun
  cbs            \* callbacks invoked so far: the connections on_connect was called
                 \* for, the connections on_disconnect was called after

(***************************************************************************)
(* Conn state (part_013: type Conn) and the tasks that act on it           *)
(***************************************************************************)
VARIABLES
  isClient,      \* c.isClient
  closed,        \* c.closed
  closeOnce,     \* c.closeOnce has run
  closeBy,       \* who ran closeOnce: "Close", "Read" or "none"
  writeMu,       \* c.writeMu: the task holding it, "none" = unlocked
  writing,       \* tasks inside writeFrame/Flush on c.writer and c.writeBuf
  building,      \* per task: the frame it is writing
  kpc,           \* tasks on the connection: position
  wire,          \* frames put on the transport, in order
  netClosed,     \* c.conn.Close() was called
  closeCode,     \* c.closeCode
  closeReason,   \* c.closeReason
  compression,   \* c.compression != nil
  rin,           \* number of frames Read has taken from the transport
  rd,            \* the running Read: messagePayload, firstFrame, the data
                 \* frames it has consumed and the last control frame
  rret           \* result of the Read that returned last: [err, msg]

(***************************************************************************)
(* The opening handshake (axon.go: upgrade, client.go: DialWithDialer)     *)
(***************************************************************************)
VARIABLES
  hs             \* one handshake: the request, the options of both ends,
                 \* the position, the result of upgrade and of the dial

(***************************************************************************)
(* The reconnect policy (close.go: IsRecoverable, reconnect.go:            *)
(* shouldReconnect) called on its own                                      *)
(***************************************************************************)
VARIABLES
  dec            \* one call: the function, its arguments and its result

clsv == <<netClosed, closeCode, closeReason>>
rdv == <<compression, rin, rd, rret>>
cnv == <<isClient, closed, closeOnce, closeBy, writeMu, writing, building, kpc, wire,
         clsv, rdv>>

clv == <<state, conn, connClosed, connCloseCode, connNetClosed, nconn, dials, hasQueue,
         ctxCancelled, wg, clpc, closeLog, closeAgain, tpc, cret, clate, rlpc,
         attempts, lastConnect, delay, config, wpc, wobs, wret, wentry, wvia,
         writes, seen, notifying, applied, smCalls, cbs>>
cvars == <<clv, cnv>>

mqvars == <<mq_queue, mq_maxSize, mq_closed, mq_dropped, mq_enqueued, mq_sent, errCh,
            chClosed, sendLog, flushing, ctxDone, enqCalls, enqRejected,
            mq_closeDone>>
qvars == <<qpc, qret>>

vars == <<mqvars, qvars, cvars, hs, dec>>

\* threads of SpecQueue
QThreads == {"q1", "q2"}
\* callers of Client.Connect / ConnectWithReadLoop
Callers == {"c1", "c2"}
\* reconnect tasks (goroutines started by startReconnect)
RTasks == {"r1", "r2"}
\* read loops (goroutines started by ConnectWithReadLoop)
RLoops == {"l1", "l2"}
\* dialed connections
ConnIds == 1..MaxDials
\* callers of Client.Write
Writers == {"w1"}
\* caller contexts handed to Enqueue; "bg" is context.Background()
Ctxs == {"ctx1", "bg"}
Threads == QThreads \cup Callers \cup RTasks

EntryIds == 1..(MaxEnqueueCalls + 1)

NoFlush == [batch |-> <<>>, i |-> 0, nExp |-> 0]

\* newMessageQueue
InitMQ(maxSize) ==
  /\ mq_queue = <<>>
  /\ mq_maxSize = maxSize
  /\ mq_closed = FALSE
  /\ mq_dropped = 0
  /\ mq_enqueued = 0
  /\ mq_sent = 0
  /\ errCh = [id \in EntryIds |-> <<>>]
  /\ chClosed = [id \in EntryIds |-> 0]
  /\ sendLog = <<>>
  /\ flushing = [t \in Threads |-> NoFlush]
  /\ ctxDone = {}
  /\ enqCalls = 0
  /\ enqRejected = 0
  /\ mq_closeDone = FALSE
  /\ qpc = [t \in QThreads |-> "idle"]
  /\ qret = "none"

\* signal one outcome on an entry's errCh and close it
Signal(ch, id, outcome) == [ch EXCEPT ![id] = Append(@, outcome)]
CloseCh(cc, id) == [cc EXCEPT ![id] = @ + 1]

\* Enqueue: the full test, under mq.mu
QueueIsFull(q) == Len(q) >= mq_maxSize

\* Enqueue: the part under mq.mu (after the closed check)
EnqueueLocked(ctx) ==
  IF QueueIsFull(mq_queue)
  THEN /\ mq_dropped' = mq_dropped + 1
       /\ enqRejected' = enqRejected + 1
       /\ UNCHANGED <<mq_queue, mq_enqueued>>
  ELSE /\ mq_queue' = Append(mq_queue, [id |-> mq_enqueued + 1, ctx |-> ctx])
       /\ mq_enqueued' = mq_enqueued + 1
       /\ UNCHANGED <<mq_dropped, enqRejected>>

\* Flush: swap the queue out under mq.mu; now := time.Now() fixes which
\* entries are expired.  Expiry times are enqueue time + timeout, so the
\* expired entries are a prefix of the batch.
FlushSwap(t, nExp) ==
  /\ nExp \in 0..Len(mq_queue)
  /\ flushing' = [flushing EXCEPT ![t] = IF mq_queue = <<>> THEN NoFlush
                                         ELSE [batch |-> mq_queue, i |-> 1, nExp |-> nExp]]
  /\ mq_queue' = <<>>

FlushActive(t) == flushing[t].i >= 1 /\ flushing[t].i <= Len(flushing[t].batch)

\* variant: the batch is walked from its last entry
FlushNext_Reversed(f) == f.batch[Len(f.batch) - f.i + 1]

\* the entry the Flush loop handles next: for _, qm := range queue
FlushNext(f) == f.batch[f.i]

\* Flush: one iteration of the loop; sendOutcome is what sendFn returns if
\* it is called
FlushStep(t, sendOutcome) ==
  LET f == flushing[t]
      e == FlushNext(f)
  IN /\ FlushActive(t)
     /\ flushing' = [flushing EXCEPT ![t] = IF f.i = Len(f.batch) THEN NoFlush
                                             ELSE [f EXCEPT !.i = @ + 1]]
     /\ IF f.i <= f.nExp
        THEN /\ errCh' = Signal(errCh, e.id, "ErrQueueTimeout")
             /\ mq_dropped' = mq_dropped + 1
             /\ UNCHANGED <<mq_sent, sendLog>>
        ELSE IF e.ctx \in ctxDone
        THEN /\ errCh' = Signal(errCh, e.id, "ctxErr")
             /\ mq_dropped' = mq_dropped + 1
             /\ UNCHANGED <<mq_sent, sendLog>>
        ELSE /\ sendLog' = Append(sendLog, [by |-> t, id |-> e.id, after |-> Len(errCh[e.id])])
             /\ errCh' = Signal(errCh, e.id, sendOutcome)
             /\ IF sendOutcome = "ok"
                THEN mq_sent' = mq_sent + 1 /\ UNCHANGED mq_dropped
                ELSE mq_dropped' = mq_dropped + 1 /\ UNCHANGED mq_sent
     /\ chClosed' = CloseCh(chClosed, e.id)

RECURSIVE SignalAll(_, _, _)
SignalAll(ch, q, outcome) ==
  IF q = <<>> THEN ch ELSE SignalAll(Signal(ch, Head(q).id, outcome), Tail(q), outcome)

RECURSIVE CloseAll(_, _)
CloseAll(cc, q) ==
  IF q = <<>> THEN cc ELSE CloseAll(CloseCh(cc, Head(q).id), Tail(q))

\* variant: Clear signals the entries and leaves them in the queue
Truncate_Keep(q) == q

\* Clear: mq.queue = mq.queue[:0]
Truncate(q) == <<>>

\* variant: Clear does not count the discarded entries as dropped
Clear_NoDropCount ==
  /\ errCh' = SignalAll(errCh, mq_queue, "ErrQueueCleared")
  /\ chClosed' = CloseAll(chClosed, mq_queue)
  /\ UNCHANGED mq_dropped
  /\ mq_queue' = Truncate(mq_queue)

\* Clear, entirely under mq.mu
Clear ==
  /\ errCh' = SignalAll(errCh, mq_queue, "ErrQueueCleared")
  /\ chClosed' = CloseAll(chClosed, mq_queue)
  /\ mq_dropped' = mq_dropped + Len(mq_queue)
  /\ mq_queue' = Truncate(mq_queue)



(***************************************************************************)
(* Conn (part_013) and the frame codec (part_000)                          *)
(***************************************************************************)
\* the caller of Write, the ping loop, the caller of Read, the caller of Close
ConnTasks == {"app", "ping", "rd", "cl"}
NoFrame == [op |-> "none"]

\* payloads: application messages, the ping loop's []byte("ping"), the
\* payload of a ping sent by the peer
Msgs == {<<104, 105>>, <<123, 125, 10, 0, 255>>}
PingPayload == <<112, 105, 110, 103>>
PeerPingPayloads == {<<>>, <<7>>}
\* rand.Read(frame.MaskKey)
MaskKeys == {<<18, 52, 86, 120>>, <<255, 0, 170, 85>>}

\* no Read has run
NoRead == [messagePayload |-> <<>>, firstFrame |-> TRUE, frames |-> <<>>,
           ctl |-> NoFrame]
NoResult == [err |-> "none", msg |-> <<>>]

\* the connection as upgrade or DialWithDialer builds it; startPingLoop ran
\* (PingInterval > 0); nothing written or read yet
InitConnWith(client, deflate) ==
  /\ isClient = client
  /\ closed = FALSE
  /\ closeOnce = FALSE
  /\ closeBy = "none"
  /\ writeMu = "none"
  /\ writing = {}
  /\ building = [t \in ConnTasks |-> NoFrame]
  /\ kpc = [t \in ConnTasks |-> IF t = "ping" THEN "loop" ELSE "idle"]
  /\ wire = <<>>
  /\ netClosed = FALSE
  /\ closeCode = 0
  /\ closeReason = <<>>
  /\ compression = deflate
  /\ rin = 0
  /\ rd = NoRead
  /\ rret = NoResult

InitConn(client) == InitConnWith(client, FALSE)

\* the connections the handshake builds: upgrade leaves c.compression nil
\* (axon.go 160-171), DialWithDialer sets it when the response accepted the
\* extension (client.go 763-765)
ConnSides ==
  {[client |-> FALSE, deflate |-> FALSE], [client |-> TRUE, deflate |-> FALSE],
   [client |-> TRUE, deflate |-> TRUE]}

\* a ^ b on bytes
RECURSIVE XorBits(_, _, _)
XorBits(a, b, n) ==
  IF n = 0 THEN 0
  ELSE (((a % 2) + (b % 2)) % 2) + 2 * XorBits(a \div 2, b \div 2, n - 1)

\* maskBytes(payload, mask): payload[i] ^= mask[i%4]
maskBytes(payload, mask) ==
  [i \in 1..Len(payload) |-> XorBits(payload[i], mask[((i - 1) % 4) + 1], 8)]

\* closePayload: the code in big-endian, then the reason
closePayload(code, reason) == <<code \div 256, code % 256>> \o reason

\* &Frame{Fin: true, Opcode: op, Payload: payload}: Masked is left false
\* and MaskKey nil
PlainFrame(op, payload) ==
  [op |-> op, masked |-> FALSE, key |-> <<>>, payload |-> payload,
   plain |-> payload]

\* the frame Conn.Write builds, lines 245-264
DataFrame(payload, key) ==
  IF isClient
  THEN [op |-> "text", masked |-> TRUE, key |-> key,
        payload |-> maskBytes(payload, key), plain |-> payload]
  ELSE [op |-> "text", masked |-> FALSE, key |-> <<>>, payload |-> payload,
        plain |-> payload]

\* what writeFrame puts on the transport for a frame: the mask bit and the
\* key come from frame.Masked and frame.MaskKey, the payload bytes are
\* written as they are
writeFrame(f, t, held) ==
  [op |-> f.op, maskBit |-> f.masked, key |-> IF f.masked THEN f.key ELSE <<>>,
   payload |-> f.payload, plain |-> f.plain, by |-> t, held |-> held]

FrameBudget == Len(wire) + Cardinality(writing) < MaxFrames

\* task t enters writeFrame with frame f
BeginFrame(t, f) ==
  /\ FrameBudget
  /\ building' = [building EXCEPT ![t] = writeFrame(f, t, writeMu = t)]
  /\ writing' = writing \cup {t}

\* writeFrame and Flush of task t are through: the frame is on the transport
\* unless the transport failed
EndFrame(t, ok) ==
  /\ wire' = IF ok THEN Append(wire, building[t]) ELSE wire
  /\ building' = [building EXCEPT ![t] = NoFrame]
  /\ writing' = writing \ {t}

\* ---- Conn.Write (part_013 181-271) ----

\* lines 182-198: the closed check
ConnWriteCheck ==
  /\ kpc["app"] = "idle"
  /\ kpc' = [kpc EXCEPT !["app"] = IF closed THEN "ErrConnectionClosed" ELSE "lock"]
  /\ UNCHANGED <<isClient, closed, closeOnce, closeBy, writeMu, writing,
                 building, wire, clsv, rdv, clv, mqvars, qvars, hs, dec>>

\* line 200: c.writeMu.Lock()
ConnWriteLock ==
  /\ kpc["app"] = "lock"
  /\ writeMu = "none"
  /\ writeMu' = "app"
  /\ kpc' = [kpc EXCEPT !["app"] = "frame"]
  /\ UNCHANGED <<isClient, closed, closeOnce, closeBy, writing, building, wire,
                 clsv, rdv, clv, mqvars, qvars, hs, dec>>

\* a message whose serialized form is one byte over the limit
BigMsg == [i \in 1..(MaxMessageSize + 1) |-> 120]

\* lines 221-223
TooLarge(payload) == Len(payload) > MaxMessageSize

\* lines 210-266: serialize; a payload over the limit returns
\* ErrMessageTooLarge and the deferred Unlock runs; otherwise build the
\* frame and enter writeFrame
ConnWriteFrame ==
  /\ kpc["app"] = "frame"
  /\ \E m \in Msgs \cup {BigMsg}, k \in MaskKeys :
       IF TooLarge(m)
       THEN /\ kpc' = [kpc EXCEPT !["app"] = "ErrMessageTooLarge"]
            /\ writeMu' = "none"
            /\ UNCHANGED <<building, writing>>
       ELSE /\ BeginFrame("app", DataFrame(m, k))
            /\ kpc' = [kpc EXCEPT !["app"] = "flush"]
            /\ UNCHANGED writeMu
  /\ UNCHANGED <<isClient, closed, closeOnce, closeBy, wire, clsv, rdv, clv,
                 mqvars, qvars, hs, dec>>

\* lines 266-270 and the deferred Unlock
ConnWriteFlush ==
  /\ kpc["app"] = "flush"
  /\ \E ok \in BOOLEAN : EndFrame("app", ok)
  /\ writeMu' = "none"
  /\ kpc' = [kpc EXCEPT !["app"] = "idle"]
  /\ UNCHANGED <<isClient, closed, closeOnce, closeBy, clsv, rdv, clv, mqvars, qvars, hs, dec>>

\* ---- the ping loop (part_013 329-360) ----

\* close(c.pingStop) has run
PingStopClosed == closeBy = "Close"

\* lines 343-351: the ticker fired
PingTick ==
  /\ kpc["ping"] = "loop"
  /\ BeginFrame("ping", PlainFrame("ping", PingPayload))
  /\ kpc' = [kpc EXCEPT !["ping"] = "flush"]
  /\ UNCHANGED <<isClient, closed, closeOnce, closeBy, writeMu, wire, clsv, rdv, clv,
                 mqvars, qvars, hs, dec>>

\* lines 351-352
PingFlush ==
  /\ kpc["ping"] = "flush"
  /\ \E ok \in BOOLEAN : EndFrame("ping", ok)
  /\ kpc' = [kpc EXCEPT !["ping"] = "loop"]
  /\ UNCHANGED <<isClient, closed, closeOnce, closeBy, writeMu, clsv, rdv, clv, mqvars,
                 qvars, hs, dec>>

\* lines 355-356: pingStop is closed, the goroutine returns
PingStop ==
  /\ kpc["ping"] = "loop"
  /\ PingStopClosed
  /\ kpc' = [kpc EXCEPT !["ping"] = "exited"]
  /\ UNCHANGED <<isClient, closed, closeOnce, closeBy, writeMu, writing,
                 building, wire, clsv, rdv, clv, mqvars, qvars, hs, dec>>

\* ---- Conn.Read (part_013 42-163) ----

\* lines 45-47: the closed check
ConnReadCheck ==
  /\ kpc["rd"] = "idle"
  /\ kpc' = [kpc EXCEPT !["rd"] = IF closed THEN "ErrConnectionClosed" ELSE "recv"]
  /\ UNCHANGED <<isClient, closed, closeOnce, closeBy, writeMu, writing,
                 building, wire, clsv, rdv, clv, mqvars, qvars, hs, dec>>

\* payloads of the close frames the peer sends: empty, one byte, a code,
\* a code and a reason
PeerClosePayloads == {<<>>, <<3>>, <<3, 233>>, <<3, 234, 111>>}

\* line 85: code := 1000
DefaultCloseCode == 1000

\* the two bytes read in the wrong order
CloseCodeOf_LittleEndian(p) == IF Len(p) >= 2 THEN p[2] * 256 + p[1] ELSE DefaultCloseCode

\* lines 85-92: binary.BigEndian.Uint16(frame.Payload[:2]) when the payload
\* has two bytes or more
CloseCodeOf(p) == IF Len(p) >= 2 THEN p[1] * 256 + p[2] ELSE DefaultCloseCode

\* lines 86-91: string(frame.Payload[2:]) when the payload has more than
\* two bytes
CloseReasonOf(p) == IF Len(p) > 2 THEN SubSeq(p, 3, Len(p)) ELSE <<>>

\* a Once that never latches
OnceDone_Never == FALSE

\* c.closeOnce has run: Do does not call its function again
OnceDone == closeOnce

\* lines 84-98: a close frame with payload p was read; closeOnce.Do stores
\* closed, closeCode and closeReason unless closeOnce has run; Read returns
\* ErrConnectionClosed
OnCloseFrame(p) ==
  /\ closed' = (closeOnce => closed)
  /\ closeBy' = IF closeOnce THEN closeBy ELSE "Read"
  /\ closeCode' = IF closeOnce THEN closeCode ELSE CloseCodeOf(p)
  /\ closeReason' = IF closeOnce THEN closeReason ELSE CloseReasonOf(p)
  /\ closeOnce' = TRUE
  /\ rd' = [NoRead EXCEPT !.ctl = PlainFrame("close", p)]
  /\ rret' = [err |-> "ErrConnectionClosed", msg |-> <<>>]
  /\ kpc' = [kpc EXCEPT !["rd"] = "idle"]

\* lines 82-97: a close frame arrived
ConnReadClose ==
  /\ kpc["rd"] = "recv"
  /\ \E p \in PeerClosePayloads : OnCloseFrame(p)
  /\ UNCHANGED <<isClient, writeMu, writing, building, wire, netClosed,
                 compression, rin, clv, mqvars, qvars, hs, dec>>

\* lines 99-106: a ping arrived, the pong enters writeFrame
ConnReadPing ==
  /\ kpc["rd"] = "recv"
  /\ \E p \in PeerPingPayloads : BeginFrame("rd", PlainFrame("pong", p))
  /\ kpc' = [kpc EXCEPT !["rd"] = "pong"]
  /\ UNCHANGED <<isClient, closed, closeOnce, closeBy, writeMu, wire, clsv, rdv, clv,
                 mqvars, qvars, hs, dec>>

\* lines 106-112: the pong is flushed, the loop continues; an error returns
ConnReadPongFlush ==
  /\ kpc["rd"] = "pong"
  /\ \E ok \in BOOLEAN :
       /\ EndFrame("rd", ok)
       /\ kpc' = [kpc EXCEPT !["rd"] = IF ok THEN "recv" ELSE "idle"]
       /\ rret' = IF ok THEN rret ELSE [err |-> "writeErr", msg |-> <<>>]
  /\ UNCHANGED <<isClient, closed, closeOnce, closeBy, writeMu, clsv,
                 compression, rin, rd, clv, mqvars, qvars, hs, dec>>

\* lines 116-162: a data frame arrived and Read returns the message
ConnReadMsg ==
  /\ kpc["rd"] = "recv"
  /\ kpc' = [kpc EXCEPT !["rd"] = "idle"]
  /\ UNCHANGED <<isClient, closed, closeOnce, closeBy, writeMu, writing,
                 building, wire, clsv, rdv, clv, mqvars, qvars, hs, dec>>

\* ---- Conn.Close (part_013 274-326) ----
NormalClosure == 1000
ClientClosedReason == <<99>>

\* lines 277-283: closeOnce.Do; closed is set and pingStop closed
\* a first call ("idle") or a call made after one has returned ("done"); a
\* call that finds closeOnce run returns nil at once
ConnCloseBegin ==
  /\ kpc["cl"] \in {"idle", "done"}
  /\ IF OnceDone
     THEN /\ kpc' = [kpc EXCEPT !["cl"] = IF kpc["cl"] = "idle" THEN "done" ELSE "again"]
          /\ UNCHANGED <<closed, closeOnce, closeBy, closeCode, closeReason>>
     ELSE /\ closeOnce' = TRUE
          /\ closed' = TRUE
          /\ closeBy' = "Close"
          /\ closeCode' = NormalClosure
          /\ closeReason' = ClientClosedReason
          /\ kpc' = [kpc EXCEPT !["cl"] = "pingwait"]
  /\ UNCHANGED <<isClient, writeMu, writing, building, wire, netClosed, rdv,
                 clv, mqvars, qvars, hs, dec>>

\* line 284: c.pingWg.Wait()
ConnClosePingWait ==
  /\ kpc["cl"] = "pingwait"
  /\ kpc["ping"] = "exited"
  /\ kpc' = [kpc EXCEPT !["cl"] = "frame"]
  /\ UNCHANGED <<isClient, closed, closeOnce, closeBy, writeMu, writing,
                 building, wire, clsv, rdv, clv, mqvars, qvars, hs, dec>>

\* lines 290-303: the close frame enters writeFrame
ConnCloseFrame ==
  /\ kpc["cl"] = "frame"
  /\ BeginFrame("cl", PlainFrame("close", closePayload(NormalClosure, ClientClosedReason)))
  /\ kpc' = [kpc EXCEPT !["cl"] = "flush"]
  /\ UNCHANGED <<isClient, closed, closeOnce, closeBy, writeMu, wire, clsv, rdv, clv,
                 mqvars, qvars, hs, dec>>

\* lines 303-317: the close frame is flushed and the transport closed
ConnCloseFlush ==
  /\ kpc["cl"] = "flush"
  /\ \E ok \in BOOLEAN : EndFrame("cl", ok)
  /\ netClosed' = TRUE
  /\ kpc' = [kpc EXCEPT !["cl"] = "done"]
  /\ UNCHANGED <<isClient, closed, closeOnce, closeBy, writeMu, closeCode,
                 closeReason, rdv, clv, mqvars, qvars, hs, dec>>

\* SpecConn: one connection, client side or server side, with a caller of
\* Write, the ping loop, a caller of Read and a caller of Close
NextConn ==
  \/ ConnWriteCheck
  \/ ConnWriteLock
  \/ ConnWriteFrame
  \/ ConnWriteFlush
  \/ PingTick
  \/ PingFlush
  \/ PingStop
  \/ ConnReadCheck
  \/ ConnReadClose
  \/ ConnReadPing
  \/ ConnReadPongFlush
  \/ ConnReadMsg
  \/ ConnCloseBegin
  \/ ConnClosePingWait
  \/ ConnCloseFrame
  \/ ConnCloseFlush

(***************************************************************************)
(* Conn.Read frame by frame (part_013 42-163, part_000 135-220,            *)
(* compression.go 89-118)                                                  *)
(***************************************************************************)
ControlOps == {"close", "ping", "pong"}

\* payloads of the data frames the peer sends: empty, "Hel", "lo", the JSON
\* string "H" with its quotes, the DEFLATE stream of "HHHHHHHH" with a
\* final block cut in two, the DEFLATE stream of "H" with a final block,
\* and a payload one byte over maxFrameSize
Hel == <<72, 101, 108>>
DeflateH8 == <<243, 240, 128, 0, 0>>
DeflateH == <<243, 0, 0>>
DataPayloads ==
  {<<>>, Hel, <<108, 111>>, <<34, 72, 34>>, SubSeq(DeflateH8, 1, 3),
   SubSeq(DeflateH8, 4, 5), DeflateH, [i \in 1..(MaxFrameSize + 1) |-> 9]}

\* a ping payload one byte over the limit of a control frame
BigPing == [i \in 1..(MaxControlPayload + 1) |-> 7]

\* a frame as the peer put it on the transport, after unmasking
InFrame(op, fin, rsv1, payload) ==
  [op |-> op, fin |-> fin, rsv1 |-> rsv1, payload |-> payload]

\* what one readFrame call can meet: a frame of the peer, the end of the
\* stream, or a read deadline that ran out
InFrames ==
  {InFrame("text", fin, FALSE, p) : fin \in BOOLEAN, p \in DataPayloads}
  \cup {InFrame("text", TRUE, TRUE, DeflateH)}
  \cup {InFrame("binary", fin, FALSE, Hel) : fin \in BOOLEAN}
  \cup {InFrame("continuation", fin, FALSE, p) :
          fin \in BOOLEAN, p \in {Hel, <<108, 111>>, SubSeq(DeflateH8, 4, 5)}}
  \cup {InFrame("ping", TRUE, FALSE, p) : p \in PeerPingPayloads}
  \cup {InFrame("ping", TRUE, FALSE, BigPing)}
  \cup {InFrame("ping", FALSE, FALSE, <<>>), InFrame("pong", TRUE, FALSE, <<>>)}
  \cup {InFrame("close", TRUE, FALSE, p) : p \in PeerClosePayloads}
  \cup {InFrame("reserved3", TRUE, FALSE, p) :
          p \in {<<>>, <<7>>, [i \in 1..(MaxFrameSize + 1) |-> 9]}}
  \cup {InFrame("reserved11", TRUE, FALSE, <<7>>)}
  \cup {InFrame("EOF", TRUE, FALSE, <<>>), InFrame("timeout", TRUE, FALSE, <<>>)}

\* readFrameHeader: the error it returns for frame x, "nil" when it returns
\* the frame; the first opcode test (> 0x7 and < 0x8) is never true, so
\* only the opcodes above 0xA ("reserved11") are refused
readFrameHeader(x) ==
  IF x.op = "EOF" THEN "io.EOF"
  ELSE IF x.op = "timeout" THEN "i/o timeout"
  ELSE IF x.rsv1 THEN "ErrInvalidFrame"
  ELSE IF x.op = "reserved11" THEN "ErrUnsupportedFrameType"
  ELSE IF x.op \in ControlOps /\ ~x.fin THEN "ErrFragmentedControlFrame"
  ELSE "nil"

\* readFrame: the error it returns for frame x, "nil" when x is handed to
\* Read
readFrame(x) ==
  IF readFrameHeader(x) # "nil" THEN readFrameHeader(x)
  ELSE IF Len(x.payload) > MaxFrameSize THEN "ErrFrameTooLarge"
  ELSE "nil"

\* readFrame 209-213: the payload bytes it takes from the transport
payloadRead(x) == IF readFrame(x) = "nil" THEN Len(x.payload) ELSE 0

\* compress/flate on data followed by 00 00 ff ff: a stream that holds a
\* final block inflates to its content; a stream that ends without one,
\* as every stream Compress produces, ends in io.ErrUnexpectedEOF
InflateTable ==
  (DeflateH8 :> [i \in 1..8 |-> 72]) @@ (DeflateH :> <<72>>)

\* CompressionManager.Decompress
Decompress(data) ==
  IF data \in DOMAIN InflateTable
  THEN [err |-> "nil", out |-> InflateTable[data]]
  ELSE [err |-> "io.ErrUnexpectedEOF", out |-> <<>>]

\* a JSON string literal without escapes
IsJSONString(p) ==
  /\ Len(p) >= 2
  /\ p[1] = 34
  /\ p[Len(p)] = 34
  /\ \A i \in 2..(Len(p) - 1) : p[i] \notin {34, 92} /\ p[i] >= 32 /\ p[i] < 128

\* lines 150-160 for T = string: json.Unmarshal, and the payload as it is
\* when that fails
Unmarshal(p) == IF IsJSONString(p) THEN SubSeq(p, 2, Len(p) - 1) ELSE p

\* lines 136-162: what Read returns for the assembled payload
Deliver(p) ==
  IF Len(p) = 0 THEN [err |-> "nil", msg |-> <<>>]
  ELSE IF compression
  THEN IF Decompress(p).err # "nil"
       THEN [err |-> Decompress(p).err, msg |-> <<>>]
       ELSE [err |-> "nil", msg |-> Unmarshal(Decompress(p).out)]
  ELSE [err |-> "nil", msg |-> Unmarshal(p)]

\* a pong that drops the payload
PongFor_Empty(x) == PlainFrame("pong", <<>>)

\* lines 101-105: the reply to ping x
PongFor(x) == PlainFrame("pong", x.payload)

\* lines 45-68: the closed check, the context check, the locals
ReadBegin ==
  /\ kpc["rd"] = "idle"
  /\ rin < MaxInFrames
  /\ rd' = NoRead
  /\ \E cancelled \in BOOLEAN :
       IF closed
       THEN /\ kpc' = [kpc EXCEPT !["rd"] = "ErrConnectionClosed"]
            /\ rret' = [err |-> "ErrConnectionClosed", msg |-> <<>>]
       ELSE IF cancelled
       THEN /\ rret' = [err |-> "ErrContextCanceled", msg |-> <<>>]
            /\ UNCHANGED kpc
       ELSE /\ kpc' = [kpc EXCEPT !["rd"] = "recv"]
            /\ UNCHANGED rret
  /\ UNCHANGED <<isClient, closed, closeOnce, closeBy, writeMu, writing,
                 building, wire, clsv, compression, rin, clv, mqvars, qvars, hs, dec>>

\* Read returns err
ReadReturns(err) ==
  /\ rret' = [err |-> err, msg |-> <<>>]
  /\ kpc' = [kpc EXCEPT !["rd"] = "idle"]

\* the fragment put in front of what was assembled
Concat_Prepend(buf, p) == p \o buf

\* line 125: append(messagePayload, frame.Payload...)
Concat(buf, p) == buf \o p

\* lines 125-131 and 136-162: the payload of data frame x is appended; over
\* the limit Read fails, after a final frame it returns the message
AppendFrame(x) ==
  LET payload == Concat(rd.messagePayload, x.payload)
  IN /\ rd' = [rd EXCEPT !.messagePayload = payload, !.firstFrame = FALSE,
                         !.frames = Append(@, x)]
     /\ IF TooLarge(payload) THEN ReadReturns("ErrMessageTooLarge")
        ELSE IF x.fin
        THEN /\ rret' = Deliver(payload)
             /\ kpc' = [kpc EXCEPT !["rd"] = "idle"]
        ELSE UNCHANGED <<rret, kpc>>

\* lines 70-134: one turn of the loop on what readFrame meets
ReadFrame ==
  /\ kpc["rd"] = "recv"
  /\ rin < MaxInFrames
  /\ rin' = rin + 1
  /\ \E x \in InFrames :
       LET keep == UNCHANGED <<closed, closeOnce, closeBy, closeCode, closeReason>>
           quiet == UNCHANGED <<building, writing>>
           logged == rd' = [rd EXCEPT !.frames = Append(@, x)]
       IN CASE readFrame(x) = "io.EOF" ->
                 ReadReturns("ErrConnectionClosed") /\ logged /\ keep /\ quiet
            [] readFrame(x) \notin {"io.EOF", "nil"} ->
                 ReadReturns(readFrame(x)) /\ logged /\ keep /\ quiet
            [] readFrame(x) = "nil" /\ x.op = "close" ->
                 OnCloseFrame(x.payload) /\ quiet
            [] readFrame(x) = "nil" /\ x.op = "ping" ->
                 /\ BeginFrame("rd", PongFor(x))
                 /\ kpc' = [kpc EXCEPT !["rd"] = "pong"]
                 /\ logged /\ keep /\ UNCHANGED rret
            [] readFrame(x) = "nil" /\ x.op = "pong" ->
                 logged /\ keep /\ quiet /\ UNCHANGED <<rret, kpc>>
            [] readFrame(x) = "nil" /\ x.op = "continuation" ->
                 IF rd.firstFrame
                 THEN ReadReturns("ErrInvalidFrame") /\ logged /\ keep /\ quiet
                 ELSE AppendFrame(x) /\ keep /\ quiet
            [] readFrame(x) = "nil" /\ x.op \in {"text", "binary"} ->
                 IF ~rd.firstFrame
                 THEN ReadReturns("ErrInvalidFrame") /\ logged /\ keep /\ quiet
                 ELSE AppendFrame(x) /\ keep /\ quiet
            [] readFrame(x) = "nil" /\ x.op = "reserved3" ->
                 ReadReturns("ErrUnsupportedFrameType") /\ logged /\ keep /\ quiet
  /\ UNCHANGED <<isClient, writeMu, wire, netClosed, compression, clv, mqvars,
                 qvars, hs, dec>>

\* SpecRead: one connection on which a task calls Read again and again
NextRead ==
  \/ ReadBegin
  \/ ReadFrame
  \/ ConnReadPongFlush

(***************************************************************************)
(* The reconnect policy: CloseCode.IsRecoverable (close.go) and            *)
(* reconnector.shouldReconnect (reconnect.go)                              *)
(***************************************************************************)
CloseNormalClosure == 1000
CloseGoingAway == 1001
CloseProtocolError == 1002
CloseUnsupportedData == 1003
CloseNoStatusReceived == 1005
CloseAbnormalClosure == 1006
CloseInvalidPayloadData == 1007
ClosePolicyViolation == 1008
CloseMessageTooBig == 1009
CloseMandatoryExtension == 1010
CloseInternalError == 1011
CloseServiceRestart == 1012
CloseTryAgainLater == 1013
CloseBadGateway == 1014
CloseTLSHandshake == 1015
ApplicationCodes == 4000

\* variant: every code outside the standard range is recoverable
IsRecoverable_AnyOther(c) ==
  c \in {CloseGoingAway, CloseInternalError, CloseServiceRestart,
         CloseTryAgainLater, CloseBadGateway, CloseAbnormalClosure,
         CloseNoStatusReceived}
  \/ c > CloseTLSHandshake

\* CloseCode.IsRecoverable: the switch, then the default branch
IsRecoverable(c) ==
  CASE c = CloseNormalClosure -> FALSE
    [] c = CloseGoingAway -> TRUE
    [] c \in {CloseProtocolError, CloseUnsupportedData,
              CloseInvalidPayloadData} -> FALSE
    [] c = ClosePolicyViolation -> FALSE
    [] c = CloseMessageTooBig -> FALSE
    [] c = CloseMandatoryExtension -> FALSE
    [] c = CloseInternalError -> TRUE
    [] c \in {CloseServiceRestart, CloseTryAgainLater} -> TRUE
    [] c = CloseBadGateway -> TRUE
    [] c \in {CloseAbnormalClosure, CloseNoStatusReceived} -> TRUE
    [] OTHER -> c >= ApplicationCodes

\* an error handed to shouldReconnect: a *CloseError, an error that wraps
\* one, or any other error
CloseError(c) == [kind |-> "CloseError", code |-> c]

\* AsCloseError: a type assertion on the error itself; nil when the error
\* is not a *CloseError
NilCloseError == [kind |-> "nil", code |-> 0]

AsCloseError(err) == IF err.kind = "CloseError" THEN err ELSE NilCloseError

\* variant: the user predicate is asked before anything else
shouldReconnectFor_PredicateFirst(cfg, a, err) ==
  IF cfg.ShouldReconnect # "nil" THEN cfg.ShouldReconnect = "true"
  ELSE IF ~cfg.Enabled THEN FALSE
  ELSE IF cfg.MaxAttempts > 0 /\ a >= cfg.MaxAttempts THEN FALSE
  ELSE IF AsCloseError(err) # NilCloseError THEN IsRecoverable(AsCloseError(err).code)
  ELSE TRUE

\* reconnector.shouldReconnect(err) with r.config = cfg and r.attempts = a;
\* cfg.ShouldReconnect is nil or a predicate with a fixed answer
shouldReconnectFor(cfg, a, err) ==
  IF ~cfg.Enabled THEN FALSE
  ELSE IF cfg.MaxAttempts > 0 /\ a >= cfg.MaxAttempts THEN FALSE
  ELSE IF cfg.ShouldReconnect # "nil" THEN cfg.ShouldReconnect = "true"
  ELSE IF AsCloseError(err) # NilCloseError THEN IsRecoverable(AsCloseError(err).code)
  ELSE TRUE

(***************************************************************************)
(* Client (client.go), state machine (part_009), reconnector (reconnect.go)*)
(***************************************************************************)
States == {"Disconnected", "Connecting", "Connected", "Reconnecting",
           "Closing", "Closed"}

\* the read-loop slots of a run: l1 is the loop of the first
\* ConnectWithReadLoop, the slots in spare are free for later calls, a slot
\* that is "off" is never used
LoopSlots(first, spare) ==
  [l \in RLoops |-> IF l = "l1" THEN first
                    ELSE IF l \in spare THEN "none" ELSE "off"]

\* callers of the stateManager when it is checked on its own
STasks == {"t1", "t2"}
\* handlers registered with OnStateChange
Handlers == {"h1", "h2"}
HandlerOrder == <<"h1", "h2">>
NotNotifying == [i |-> 0, from |-> "none", to |-> "none"]

\* newStateManager and the OnStateChange calls made before the client is
\* used; subscribed is the set of handlers registered
InitStateManager(subscribed) ==
  /\ seen = [h \in subscribed |-> <<>>]
  /\ notifying = [t \in STasks |-> NotNotifying]
  /\ applied = <<>>
  /\ smCalls = 0

\* NewClient
InitClient(queueEnabled, spare, cfg) ==
  /\ state = "Disconnected"
  /\ conn = 0
  /\ connClosed = [k \in ConnIds |-> FALSE]
  /\ connCloseCode = [k \in ConnIds |-> 0]
  /\ connNetClosed = [k \in ConnIds |-> FALSE]
  /\ nconn = 0
  /\ dials = 0
  /\ hasQueue = queueEnabled
  /\ ctxCancelled = FALSE
  /\ wg = 0
  /\ clpc = "none"
  /\ closeLog = <<>>
  /\ closeAgain = FALSE
  /\ tpc = [t \in Callers |-> "idle"] @@ [t \in RTasks |-> "none"]
  /\ cret = "none"
  /\ clate = {}
  /\ rlpc = LoopSlots("none", spare)
  /\ attempts = 0
  /\ lastConnect = "zero"
  /\ delay = 0
  /\ config = cfg
  /\ wpc = [w \in Writers |-> "idle"]
  /\ wobs = [w \in Writers |-> "none"]
  /\ wret = [w \in Writers |-> "none"]
  /\ wentry = [w \in Writers |-> 0]
  /\ wvia = [w \in Writers |-> "none"]
  /\ writes = 0
  /\ cbs = [connected |-> {}, lost |-> {}]

\* NewClient followed by a ConnectWithReadLoop that returned nil: the first
\* connection is installed and the read loop is running
InitConnected(queueEnabled, spare, cfg) ==
  /\ state = "Connected"
  /\ conn = 1
  /\ connClosed = [k \in ConnIds |-> FALSE]
  /\ connCloseCode = [k \in ConnIds |-> 0]
  /\ connNetClosed = [k \in ConnIds |-> FALSE]
  /\ nconn = 1
  /\ dials = 1
  /\ hasQueue = queueEnabled
  /\ ctxCancelled = FALSE
  /\ wg = 1
  /\ clpc = "none"
  /\ closeLog = <<>>
  /\ closeAgain = FALSE
  /\ tpc = [t \in Callers |-> "idle"] @@ [t \in RTasks |-> "none"]
  /\ cret = "nil"
  /\ clate = {}
  /\ rlpc = LoopSlots("top", spare)
  /\ attempts = 0
  /\ lastConnect = "zero"
  /\ delay = 0
  /\ config = cfg
  /\ wpc = [w \in Writers |-> "idle"]
  /\ wobs = [w \in Writers |-> "none"]
  /\ wret = [w \in Writers |-> "none"]
  /\ wentry = [w \in Writers |-> 0]
  /\ wvia = [w \in Writers |-> "none"]
  /\ writes = 0
  /\ cbs = [connected |-> {1}, lost |-> {}]

\* c.onConnect(c) is invoked while connection k is installed
onConnect(k) == [cbs EXCEPT !.connected = @ \cup {k}]

\* c.onDisconnect(c, err) is invoked; k is the connection installed last
onDisconnect(k) == [cbs EXCEPT !.lost = @ \cup {k}]

connv == <<conn, connClosed, connCloseCode, connNetClosed, nconn, dials>>
smv == <<seen, notifying, applied, smCalls>>
closev == <<clpc, closeLog, closeAgain>>
callv == <<cret, clate>>
recv == <<attempts, lastConnect, delay, config>>
writev == <<wpc, wobs, wret, wentry, wvia, writes>>
mqghost == <<mq_maxSize, ctxDone, enqCalls, mq_closeDone>>

\* variant: a swap that succeeds from any state
transition_NoCompare(from) == TRUE

\* stateManager.transition(from, to): does the compare-and-swap succeed
transition(from) == state = from

\* variant: the swap leaves the old state in place
forceTransition_Keep(to) == state

\* stateManager.forceTransition(to): the state after the swap
forceTransition(to) == to

\* the ReconnectConfig of the clients under test: the defaults of
\* newReconnector, without jitter
ClientReconnect ==
  [InitialDelay |-> 1000, MaxDelay |-> 30000,
   BackoffMultiplier |-> [num |-> 2, den |-> 1], Jitter |-> FALSE]

\* the configurations the backoff is checked under; newReconnector leaves
\* every positive delay and multiplier as it is
ReconnectConfigs ==
  [InitialDelay : {100, 1000}, MaxDelay : {50, 1000},
   BackoffMultiplier : {[num |-> 2, den |-> 1], [num |-> 3, den |-> 2],
                        [num |-> 1, den |-> 2]},
   Jitter : BOOLEAN]

\* math.Pow for a natural exponent
RECURSIVE Pow(_, _)
Pow(b, e) == IF e = 0 THEN 1 ELSE b * Pow(b, e - 1)

\* variant: the delay is not capped
CappedDelay_NoCap(cfg, a) == cfg.InitialDelay * Pow(cfg.BackoffMultiplier.num, a)

\* nextDelay 121-126: InitialDelay * BackoffMultiplier^attempts capped at
\* MaxDelay, as the numerator over the denominator Pow(den, a)
CappedDelay(cfg, a) ==
  LET raw == cfg.InitialDelay * Pow(cfg.BackoffMultiplier.num, a)
      cap == cfg.MaxDelay * Pow(cfg.BackoffMultiplier.den, a)
  IN IF raw > cap THEN cap ELSE raw

\* nextDelay 120-136 with r.attempts = a: the delays it can return; with
\* jitter the delay d becomes d + (f * 2 * d/4 - d/4) for f = n/JitterSteps,
\* and time.Duration(delay) truncates
nextDelay(cfg, a) ==
  LET num == CappedDelay(cfg, a)
      den == Pow(cfg.BackoffMultiplier.den, a)
  IN IF cfg.Jitter
     THEN {(num * (3 * JitterSteps + 2 * n)) \div (den * 4 * JitterSteps) :
             n \in 0..(JitterSteps - 1)}
     ELSE {num \div den}

\* attempt 140-141: r.attempts++; delay := r.nextDelay()
attempt ==
  /\ attempts' = attempts + 1
  /\ delay' \in nextDelay(config, attempts + 1)

\* the policy of the clients under test: Enabled, MaxAttempts attempts, no
\* user predicate
ClientPolicy ==
  [Enabled |-> TRUE, MaxAttempts |-> MaxAttempts, ShouldReconnect |-> "nil"]

\* the error handleDisconnect gets from the read loop: ErrConnectionClosed
\* or ErrContextCanceled, the errors Conn.Read returns; it never returns a
\* *CloseError, after a close frame of the peer either (part_013 84-97)
DisconnectError == [kind |-> "other", code |-> 0]

\* c.reconnector.shouldReconnect(err) as handleDisconnect calls it
shouldReconnect == shouldReconnectFor(ClientPolicy, attempts, DisconnectError)

\* Conn.Write as called by c.write: ErrConnectionClosed without a
\* connection or on a closed one, otherwise the transport decides
WriteOutcomes(k) ==
  IF k = 0 \/ connClosed[k] THEN {"ErrConnectionClosed"} ELSE {"ok", "writeErr"}

\* the queue variables an operation leaves alone
mqNotSwap == <<mq_maxSize, mq_closed, mq_dropped, mq_enqueued, mq_sent, errCh,
               chClosed, sendLog, ctxDone, enqCalls, enqRejected, mq_closeDone>>
mqNotStep == <<mq_queue, mq_maxSize, mq_closed, mq_enqueued, ctxDone, enqCalls,
               enqRejected, mq_closeDone>>
mqNotEnq == <<mq_maxSize, mq_closed, mq_sent, errCh, chClosed, sendLog,
              flushing, ctxDone, enqCalls, mq_closeDone>>
mqNotClear == <<mq_maxSize, mq_closed, mq_enqueued, mq_sent, sendLog, flushing,
                ctxDone, enqCalls, enqRejected>>

\* ---- Connect / ConnectWithReadLoop (client.go 131-184) ----

\* caller c1 calls ConnectWithReadLoop, caller c2 calls Connect
cloop(c) == c = "c1"

\* line 133: compare-and-set Disconnected -> Connecting
ConnectCas(c) ==
  /\ tpc[c] = "idle"
  /\ cloop(c) => \E l \in RLoops : rlpc[l] = "none"
  /\ transition("Disconnected") => dials < MaxDials
  /\ UNCHANGED cret
  /\ clate' = IF clpc = "done" THEN clate \cup {c} ELSE clate \ {c}
  /\ IF transition("Disconnected")
     THEN /\ state' = "Connecting"
          /\ dials' = dials + 1
          /\ tpc' = [tpc EXCEPT ![c] = "dial"]
     ELSE /\ tpc' = [tpc EXCEPT ![c] = "casfail"]
          /\ UNCHANGED <<state, dials>>
  /\ UNCHANGED <<conn, connClosed, connCloseCode, connNetClosed, nconn, hasQueue, ctxCancelled, wg, closev,
                 rlpc, recv, writev, cnv, cbs, smv, mqvars, qvars, hs, dec>>

\* the read loop ConnectWithReadLoop starts after a nil result (180-181)
SpawnReadLoop(c) ==
  IF cloop(c) /\ \E l \in RLoops : rlpc[l] = "none"
  THEN LET l == CHOOSE x \in RLoops : rlpc[x] = "none"
       IN /\ rlpc' = [rlpc EXCEPT ![l] = "top"]
          /\ wg' = wg + 1
  ELSE UNCHANGED <<rlpc, wg>>

\* lines 134-138: the compare-and-set failed
ConnectCasFailed(c) ==
  /\ tpc[c] = "casfail"
  /\ tpc' = [tpc EXCEPT ![c] = "idle"]
  /\ IF state = "Connected"
     THEN /\ cret' = "nilAlready"
          /\ SpawnReadLoop(c)
     ELSE /\ cret' = "ErrInvalidState"
          /\ UNCHANGED <<rlpc, wg>>
  /\ UNCHANGED <<clate, state, connv, hasQueue, ctxCancelled, closev, recv,
                 writev, cnv, cbs, smv, mqvars, qvars, hs, dec>>

\* lines 142-146: the dial failed
ConnectDialFail(c) ==
  /\ c \in Callers
  /\ tpc[c] = "dial"
  /\ state' = forceTransition("Disconnected")
  /\ cret' = "dialErr"
  /\ tpc' = [tpc EXCEPT ![c] = "idle"]
  /\ UNCHANGED <<clate, connv, hasQueue, ctxCancelled, wg, closev, rlpc, recv,
                 writev, cnv, cbs, smv, mqvars, qvars, hs, dec>>

\* Connect 142-150 and the dial function of startReconnect 266-273: the
\* dial succeeded and the connection is installed
DialOk(t) ==
  /\ tpc[t] = "dial"
  /\ nconn' = nconn + 1
  /\ conn' = nconn + 1
  /\ tpc' = [tpc EXCEPT ![t] = "installed"]
  /\ UNCHANGED <<state, connClosed, connCloseCode, connNetClosed, dials, hasQueue, ctxCancelled, wg, closev,
                 callv, rlpc, recv, writev, cnv, cbs, smv, mqvars, qvars, hs, dec>>

\* line 153 / line 276
SetConnected(t) ==
  /\ tpc[t] = "installed"
  /\ state' = forceTransition("Connected")
  /\ tpc' = [tpc EXCEPT ![t] = IF hasQueue THEN "flush" ELSE "finish"]
  /\ UNCHANGED <<connv, hasQueue, ctxCancelled, wg, closev, callv, rlpc, recv,
                 writev, cnv, cbs, smv, mqvars, qvars, hs, dec>>

\* lines 156-160 / 279-283: Flush, the swap
ClientFlushSwap(t) ==
  /\ tpc[t] = "flush"
  /\ \E nExp \in 0..Len(mq_queue) : FlushSwap(t, nExp)
  /\ tpc' = [tpc EXCEPT ![t] = IF mq_queue = <<>> THEN "finish" ELSE "flushloop"]
  /\ UNCHANGED <<state, connv, hasQueue, ctxCancelled, wg, closev, callv, rlpc,
                 recv, writev, cnv, cbs, smv, qvars, hs, dec, mqNotSwap>>

\* lines 156-160 / 279-283: Flush, one entry, sent with c.write
ClientFlushStep(t) ==
  /\ tpc[t] = "flushloop"
  /\ \E o \in WriteOutcomes(conn) : FlushStep(t, o)
  /\ tpc' = [tpc EXCEPT ![t] = IF flushing[t].i = Len(flushing[t].batch)
                                THEN "finish" ELSE "flushloop"]
  /\ UNCHANGED <<state, connv, hasQueue, ctxCancelled, wg, closev, callv, rlpc,
                 recv, writev, cnv, cbs, smv, qvars, hs, dec, mqNotStep>>

\* reconnector.maybeReset: resets the counter if lastConnect is set and
\* ResetAfter has elapsed since
maybeReset == IF lastConnect = "old" THEN 0 ELSE attempts

\* lines 163-170 and 180-181: on_connect, maybeReset, return nil
ConnectFinish(c) ==
  /\ c \in Callers
  /\ tpc[c] = "finish"
  /\ cret' = "nil"
  /\ tpc' = [tpc EXCEPT ![c] = "idle"]
  /\ attempts' = maybeReset
  /\ cbs' = onConnect(conn)
  /\ SpawnReadLoop(c)
  /\ UNCHANGED <<clate, state, connv, hasQueue, ctxCancelled, closev,
                 lastConnect, delay, config, writev, cnv, smv, mqvars, qvars, hs, dec>>

\* ---- readLoop and handleDisconnect (client.go 187-253) ----

\* lines 190-208: the checks at the top of the loop
ReadLoopTop(l) ==
  /\ rlpc[l] = "top"
  /\ ctxCancelled \/ state \in {"Closed", "Closing", "Connected"}
  /\ IF ctxCancelled \/ state \in {"Closed", "Closing"}
     THEN rlpc' = [rlpc EXCEPT ![l] = "none"] /\ wg' = wg - 1
     ELSE rlpc' = [rlpc EXCEPT ![l] = "read"] /\ UNCHANGED wg
  /\ UNCHANGED <<state, connv, hasQueue, ctxCancelled, closev, tpc, callv, recv,
                 writev, cnv, cbs, smv, mqvars, qvars, hs, dec>>

\* the close code the close frames of the client's peers carry: a normal
\* closure
PeerCloseCodes == {CloseNormalClosure}

\* what the transport gives one Conn.Read: end of stream at a frame
\* boundary, a read deadline that ran out, end of stream inside a frame, a
\* frame the codec rejects, a close frame, a message
TransportResults == {"EOF", "timeout", "UnexpectedEOF", "badFrame", "closeFrame", "msg"}

\* what c.Read meets: no connection or a closed one, a cancelled c.ctx, or
\* a result of the transport
ReadResults ==
  IF conn = 0 \/ connClosed[conn] THEN {"closed"}
  ELSE IF ctxCancelled THEN {"ctxDone"}
  ELSE TransportResults

\* the error Client.Read returns (client.go 303-315, part_013 45-97): only
\* io.EOF is turned into ErrConnectionClosed, any other error of readFrame
\* is returned as it is
ReadError(t) ==
  CASE t = "closed"        -> "ErrConnectionClosed"
    [] t = "ctxDone"       -> "ErrContextCanceled"
    [] t = "EOF"           -> "ErrConnectionClosed"
    [] t = "closeFrame"    -> "ErrConnectionClosed"
    [] t = "timeout"       -> "i/o timeout"
    [] t = "UnexpectedEOF" -> "io.ErrUnexpectedEOF"
    [] t = "badFrame"      -> "ErrInvalidFrame"
    [] t = "msg"           -> "nil"

\* client.go 214: the errors the read loop hands to handleDisconnect; Read
\* never returns a *CloseError
IsDisconnect(err) == err \in {"ErrConnectionClosed", "ErrContextCanceled"}

\* the errors the read loop reports to on_error
ReportedErrors == {"i/o timeout", "io.ErrUnexpectedEOF", "ErrInvalidFrame"}

\* lines 211-216 and 226-229: one c.Read; a disconnect goes to
\* handleDisconnect, a message to on_message, any other error to the
\* on_error branch
ReadLoopRead(l) ==
  /\ rlpc[l] = "read"
  /\ \E t \in ReadResults :
       /\ rlpc' = [rlpc EXCEPT ![l] = IF ReadError(t) = "nil" THEN "top"
                                      ELSE IF IsDisconnect(ReadError(t)) THEN "hd"
                                      ELSE ReadError(t)]
       /\ connClosed' = IF t = "closeFrame" THEN [connClosed EXCEPT ![conn] = TRUE]
                        ELSE connClosed
       /\ connCloseCode' \in
            IF t = "closeFrame"
            THEN {[connCloseCode EXCEPT ![conn] = c] : c \in PeerCloseCodes}
            ELSE {connCloseCode}
  /\ UNCHANGED <<state, conn, connNetClosed, nconn, dials, hasQueue,
                 ctxCancelled, wg, closev, tpc, callv, recv, writev, cnv, cbs,
                 smv, mqvars, qvars, hs, dec>>

\* lines 219-223: on_error(err), continue
ReadLoopOnError(l) ==
  /\ rlpc[l] \in ReportedErrors
  /\ rlpc' = [rlpc EXCEPT ![l] = "top"]
  /\ UNCHANGED <<state, connv, hasQueue, ctxCancelled, wg, closev, tpc, callv,
                 recv, writev, cnv, cbs, smv, mqvars, qvars, hs, dec>>

\* lines 236-244: handleDisconnect reads the state and calls on_disconnect
HandleDisconnectCheck(l) ==
  /\ rlpc[l] = "hd"
  /\ rlpc' = [rlpc EXCEPT ![l] = IF state \in {"Closed", "Closing"} THEN "top" ELSE "hd2"]
  /\ cbs' = IF state \in {"Closed", "Closing"} THEN cbs ELSE onDisconnect(nconn)
  /\ UNCHANGED <<state, connv, hasQueue, ctxCancelled, wg, closev, tpc, callv,
                 recv, writev, cnv, smv, mqvars, qvars, hs, dec>>

\* lines 247-252 with startReconnect 257-258
HandleDisconnectDecide(l) ==
  /\ rlpc[l] = "hd2"
  /\ rlpc' = [rlpc EXCEPT ![l] = "top"]
  /\ IF shouldReconnect
     THEN \E r \in RTasks :
            /\ tpc[r] = "none"
            /\ \A x \in RTasks : tpc[x] = "none" => r = (CHOOSE y \in RTasks : tpc[y] = "none")
            /\ state' = forceTransition("Reconnecting")
            /\ tpc' = [tpc EXCEPT ![r] = "top"]
            /\ wg' = wg + 1
     ELSE /\ state' = forceTransition("Disconnected")
          /\ UNCHANGED <<tpc, wg>>
  /\ UNCHANGED <<connv, hasQueue, ctxCancelled, closev, callv, recv, writev,
                 cnv, cbs, smv, mqvars, qvars, hs, dec>>

\* ---- the reconnect task (client.go 258-299, reconnect.go 139-200) ----

\* the errors reconnectLoop returns (reconnect.go 185, 189, 198)
ReconnectErrors == {"context.Canceled", "ErrReconnectFailed"}

\* reconnectLoop 183-190: the checks at the top of the loop
ReconnectTop(r) ==
  /\ r \in RTasks
  /\ tpc[r] = "top"
  /\ tpc' = [tpc EXCEPT ![r] = IF ctxCancelled THEN "context.Canceled"
                               ELSE IF ~shouldReconnect THEN "ErrReconnectFailed"
                               ELSE "attempt"]
  /\ UNCHANGED <<state, connv, hasQueue, ctxCancelled, wg, closev, callv, rlpc,
                 recv, writev, cnv, cbs, smv, mqvars, qvars, hs, dec>>

\* attempt 140-145: r.attempts++, nextDelay, OnReconnecting
ReconnectAttempt(r) ==
  /\ r \in RTasks
  /\ tpc[r] = "attempt"
  /\ attempt
  /\ tpc' = [tpc EXCEPT ![r] = "wait"]
  /\ UNCHANGED <<state, connv, hasQueue, ctxCancelled, wg, closev, callv, rlpc,
                 lastConnect, config, writev, cnv, cbs, smv, mqvars, qvars, hs, dec>>

\* reconnectLoop 192-199: attempt returned err, not nil
AfterFailedAttempt(err) == IF shouldReconnect THEN "top" ELSE "ErrReconnectFailed"

\* attempt 147-149: the wait is cut short by cancellation, attempt returns
\* ctx.Err()
ReconnectWaitCancelled(r) ==
  /\ r \in RTasks
  /\ tpc[r] = "wait"
  /\ ctxCancelled
  /\ tpc' = [tpc EXCEPT ![r] = AfterFailedAttempt("context.Canceled")]
  /\ UNCHANGED <<state, connv, hasQueue, ctxCancelled, wg, closev, callv, rlpc,
                 recv, writev, cnv, cbs, smv, mqvars, qvars, hs, dec>>

\* attempt 150-153 and the dial function, line 263
ReconnectDialBegin(r) ==
  /\ r \in RTasks
  /\ tpc[r] = "wait"
  /\ dials < MaxDials
  /\ state' = forceTransition("Connecting")
  /\ dials' = dials + 1
  /\ tpc' = [tpc EXCEPT ![r] = "dial"]
  /\ UNCHANGED <<conn, connClosed, connCloseCode, connNetClosed, nconn, hasQueue, ctxCancelled, wg, closev,
                 callv, rlpc, recv, writev, cnv, cbs, smv, mqvars, qvars, hs, dec>>

\* lines 266-269, attempt 154-158: the dial failed, attempt returns its error
ReconnectDialFail(r) ==
  /\ r \in RTasks
  /\ tpc[r] = "dial"
  /\ tpc' = [tpc EXCEPT ![r] = AfterFailedAttempt("dialErr")]
  /\ UNCHANGED <<state, connv, hasQueue, ctxCancelled, wg, closev, callv, rlpc,
                 recv, writev, cnv, cbs, smv, mqvars, qvars, hs, dec>>

\* lines 286-290, attempt 161-166, goroutine exit
ReconnectFinish(r) ==
  /\ r \in RTasks
  /\ tpc[r] = "finish"
  /\ lastConnect' = "recent"
  /\ cbs' = onConnect(conn)
  /\ tpc' = [tpc EXCEPT ![r] = "none"]
  /\ wg' = wg - 1
  /\ UNCHANGED <<state, connv, hasQueue, ctxCancelled, closev, callv, rlpc,
                 attempts, delay, config, writev, cnv, smv, mqvars, qvars, hs, dec>>

\* time passes: ResetAfter has elapsed since r.lastConnect was set
ResetAfterElapses ==
  /\ lastConnect = "recent"
  /\ lastConnect' = "old"
  /\ UNCHANGED <<state, connv, hasQueue, ctxCancelled, wg, closev, tpc, callv,
                 rlpc, attempts, delay, config, writev, cnv, cbs, smv, mqvars, qvars, hs, dec>>

\* lines 293-298: reconnectLoop returned an error; on_error(err)
ReconnectFail(r) ==
  /\ r \in RTasks
  /\ tpc[r] \in ReconnectErrors
  /\ state' = forceTransition("Disconnected")
  /\ tpc' = [tpc EXCEPT ![r] = "none"]
  /\ wg' = wg - 1
  /\ UNCHANGED <<connv, hasQueue, ctxCancelled, closev, callv, rlpc, recv,
                 writev, cnv, cbs, smv, mqvars, qvars, hs, dec>>

\* ---- Client.Write (client.go 319-357) ----

\* variant: Write enqueues in every state but Connected
WritePath_QueueWhenever(s) ==
  IF s = "Connected" THEN "direct"
  ELSE IF hasQueue THEN "enq"
  ELSE "closed"

\* lines 323-343: the path Write takes for the state s it read
WritePath(s) ==
  IF s = "Connected" THEN "direct"
  ELSE IF hasQueue /\ (s = "Reconnecting" \/ s = "Connecting") THEN "enq"
  ELSE "closed"

\* lines 320-343: read the state and choose the path
WriteBegin(w) ==
  /\ wpc[w] = "idle"
  /\ writes < MaxWrites
  /\ writes' = writes + 1
  /\ wobs' = [wobs EXCEPT ![w] = state]
  /\ wentry' = [wentry EXCEPT ![w] = 0]
  /\ wvia' = [wvia EXCEPT ![w] = "none"]
  /\ IF WritePath(state) = "closed"
     THEN /\ wret' = [wret EXCEPT ![w] = "ErrConnectionClosed"]
          /\ UNCHANGED wpc
     ELSE /\ wpc' = [wpc EXCEPT ![w] = WritePath(state)]
          /\ wret' = [wret EXCEPT ![w] = "none"]
  /\ UNCHANGED <<state, connv, hasQueue, ctxCancelled, wg, closev, tpc, callv,
                 rlpc, recv, cnv, cbs, smv, mqvars, qvars, hs, dec>>

\* line 324: c.write
WriteDirect(w) ==
  /\ wpc[w] = "direct"
  /\ \E o \in (IF conn # 0 /\ ~connClosed[conn] /\ w \in ctxDone
               THEN {"ErrContextCanceled"} ELSE WriteOutcomes(conn)) :
       /\ wret' = [wret EXCEPT ![w] = o]
       /\ wvia' = [wvia EXCEPT ![w] = IF conn = 0 THEN "none" ELSE "conn"]
  /\ wpc' = [wpc EXCEPT ![w] = "idle"]
  /\ UNCHANGED <<state, connv, hasQueue, ctxCancelled, wg, closev, tpc, callv,
                 rlpc, recv, wobs, wentry, writes, cnv, cbs, smv, mqvars, qvars, hs, dec>>

\* line 329, Enqueue's closed check
WriteEnqueueCheck(w) ==
  /\ wpc[w] = "enq"
  /\ IF mq_closed
     THEN /\ wret' = [wret EXCEPT ![w] = "ErrQueueClosed"]
          /\ wpc' = [wpc EXCEPT ![w] = "idle"]
     ELSE /\ wpc' = [wpc EXCEPT ![w] = "enqlock"]
          /\ UNCHANGED wret
  /\ UNCHANGED <<state, connv, hasQueue, ctxCancelled, wg, closev, tpc, callv,
                 rlpc, recv, wobs, wentry, wvia, writes, cnv, cbs, smv, mqvars, qvars, hs, dec>>

\* line 329, Enqueue's locked part
WriteEnqueueLocked(w) ==
  /\ wpc[w] = "enqlock"
  /\ EnqueueLocked(w)
  /\ IF QueueIsFull(mq_queue)
     THEN /\ wret' = [wret EXCEPT ![w] = "ErrQueueFull"]
          /\ wpc' = [wpc EXCEPT ![w] = "idle"]
          /\ UNCHANGED <<wentry, wvia>>
     ELSE /\ wentry' = [wentry EXCEPT ![w] = mq_enqueued + 1]
          /\ wvia' = [wvia EXCEPT ![w] = "queue"]
          /\ wpc' = [wpc EXCEPT ![w] = "wait"]
          /\ UNCHANGED wret
  /\ UNCHANGED <<state, connv, hasQueue, ctxCancelled, wg, closev, tpc, callv,
                 rlpc, recv, wobs, writes, cnv, cbs, smv, mqNotEnq, qvars, hs, dec>>

\* lines 335-340: the entry's result arrived
WriteResult(w) ==
  /\ wpc[w] = "wait"
  /\ errCh[wentry[w]] # <<>>
  /\ wret' = [wret EXCEPT ![w] = errCh[wentry[w]][1]]
  /\ wpc' = [wpc EXCEPT ![w] = "idle"]
  /\ UNCHANGED <<state, connv, hasQueue, ctxCancelled, wg, closev, tpc, callv,
                 rlpc, recv, wobs, wentry, wvia, writes, cnv, cbs, smv, mqvars, qvars, hs, dec>>

\* lines 335-337: ctx was cancelled first
WriteCtxDone(w) ==
  /\ wpc[w] = "wait"
  /\ w \in ctxDone
  /\ wret' = [wret EXCEPT ![w] = "ctxErr"]
  /\ wpc' = [wpc EXCEPT ![w] = "idle"]
  /\ UNCHANGED <<state, connv, hasQueue, ctxCancelled, wg, closev, tpc, callv,
                 rlpc, recv, wobs, wentry, wvia, writes, cnv, cbs, smv, mqvars, qvars, hs, dec>>

\* ---- Client.Close (client.go 393-424) ----
ConnCloseStep == "conn.Close(1000, client closed)"
CloseOrder == <<"Closing", "cancel", "queue.Close", ConnCloseStep, "wg.Wait", "Closed">>

\* line 398
CloseBegin ==
  /\ clpc = "none"
  /\ state' = forceTransition("Closing")
  /\ closeLog' = Append(closeLog, "Closing")
  /\ clpc' = "cancel"
  /\ UNCHANGED <<connv, hasQueue, ctxCancelled, wg, closeAgain, tpc, callv,
                 rlpc, recv, writev, cnv, cbs, smv, mqvars, qvars, hs, dec>>

\* line 401
CloseCancel ==
  /\ clpc = "cancel"
  /\ ctxCancelled' = TRUE
  /\ closeLog' = Append(closeLog, "cancel")
  /\ clpc' = IF hasQueue THEN "queue" ELSE "conn"
  /\ UNCHANGED <<state, connv, hasQueue, wg, closeAgain, tpc, callv, rlpc, recv,
                 writev, cnv, cbs, smv, mqvars, qvars, hs, dec>>

\* lines 404-406, MessageQueue.Close: closed.Swap(true)
CloseQueueSwap ==
  /\ clpc = "queue"
  /\ mq_closed' = TRUE
  /\ clpc' = "queueclear"
  /\ UNCHANGED <<state, connv, hasQueue, ctxCancelled, wg, closeLog, closeAgain,
                 tpc, callv, rlpc, recv, writev, cnv, cbs, smv, qvars, hs, dec, mq_queue,
                 mq_maxSize, mq_dropped, mq_enqueued, mq_sent, errCh, chClosed,
                 sendLog, flushing, ctxDone, enqCalls, enqRejected, mq_closeDone>>

\* lines 404-406, MessageQueue.Close: Clear
CloseQueueClear ==
  /\ clpc = "queueclear"
  /\ Clear
  /\ mq_closeDone' = TRUE
  /\ closeLog' = Append(closeLog, "queue.Close")
  /\ clpc' = "conn"
  /\ UNCHANGED <<state, connv, hasQueue, ctxCancelled, wg, closeAgain, tpc,
                 callv, rlpc, recv, writev, cnv, cbs, smv, qvars, hs, dec, mqNotClear>>

\* lines 409-414: conn.Close(1000, "client closed"); c.conn = nil
CloseConn ==
  /\ clpc = "conn"
  /\ IF conn # 0
     THEN /\ connClosed' = [connClosed EXCEPT ![conn] = TRUE]
          /\ connCloseCode' = IF connClosed[conn] THEN connCloseCode
                              ELSE [connCloseCode EXCEPT ![conn] = NormalClosure]
          /\ connNetClosed' = IF connClosed[conn] THEN connNetClosed
                              ELSE [connNetClosed EXCEPT ![conn] = TRUE]
          /\ closeLog' = Append(closeLog, ConnCloseStep)
     ELSE UNCHANGED <<connClosed, connCloseCode, connNetClosed, closeLog>>
  /\ conn' = 0
  /\ clpc' = "wait"
  /\ UNCHANGED <<state, nconn, dials, hasQueue, ctxCancelled, wg, closeAgain,
                 tpc, callv, rlpc, recv, writev, cnv, cbs, smv, mqvars, qvars, hs, dec>>

\* variant: Close does not wait for the background tasks
CloseWait_NoWait ==
  /\ clpc = "wait"
  /\ closeLog' = Append(closeLog, "wg.Wait")
  /\ clpc' = "final"
  /\ UNCHANGED <<state, connv, hasQueue, ctxCancelled, wg, closeAgain, tpc,
                 callv, rlpc, recv, writev, cnv, cbs, smv, mqvars, qvars, hs, dec>>

\* line 417: wg.Wait()
CloseWait ==
  /\ clpc = "wait"
  /\ wg = 0
  /\ closeLog' = Append(closeLog, "wg.Wait")
  /\ clpc' = "final"
  /\ UNCHANGED <<state, connv, hasQueue, ctxCancelled, wg, closeAgain, tpc,
                 callv, rlpc, recv, writev, cnv, cbs, smv, mqvars, qvars, hs, dec>>

\* line 420; Close returns
CloseFinal ==
  /\ clpc = "final"
  /\ state' = forceTransition("Closed")
  /\ closeLog' = Append(closeLog, "Closed")
  /\ clpc' = "done"
  /\ UNCHANGED <<connv, hasQueue, ctxCancelled, wg, closeAgain, tpc, callv,
                 rlpc, recv, writev, cnv, cbs, smv, mqvars, qvars, hs, dec>>

\* a Close call after the first: closeOnce.Do does nothing, returns nil
CloseAgain ==
  /\ clpc = "done"
  /\ ~closeAgain
  /\ closeAgain' = TRUE
  /\ UNCHANGED <<state, connv, hasQueue, ctxCancelled, wg, clpc, closeLog, tpc,
                 callv, rlpc, recv, writev, cnv, cbs, smv, mqvars, qvars, hs, dec>>

\* the caller of a Write cancels the context it passed
CancelWriteCtx(w) ==
  /\ w \notin ctxDone
  /\ ctxDone' = ctxDone \cup {w}
  /\ UNCHANGED <<cvars, qvars, hs, dec, mq_queue, mq_maxSize, mq_closed, mq_dropped,
                 mq_enqueued, mq_sent, errCh, chClosed, sendLog, flushing,
                 enqCalls, enqRejected, mq_closeDone>>

(***************************************************************************)
(* The opening handshake: Upgrader.upgrade (axon.go) on the server and     *)
(* DialWithDialer (client.go) on the client.  A string is the sequence of  *)
(* its bytes.                                                              *)
(***************************************************************************)
\* "websocket"
StrWebsocket == <<119, 101, 98, 115, 111, 99, 107, 101, 116>>

\* "WebSocket"
StrWebSocketMixed == <<87, 101, 98, 83, 111, 99, 107, 101, 116>>

\* "h2c"
StrH2c == <<104, 50, 99>>

\* "Upgrade"
StrUpgrade == <<85, 112, 103, 114, 97, 100, 101>>

\* "upgrade"
StrUpgradeLower == <<117, 112, 103, 114, 97, 100, 101>>

\* "keep-alive, Upgrade"
StrKeepAliveUpgrade == <<107, 101, 101, 112, 45, 97, 108, 105, 118, 101, 44, 32, 85, 112, 103, 114, 97, 100, 101>>

\* "close"
StrClose == <<99, 108, 111, 115, 101>>

\* "13"
StrVersion13 == <<49, 51>>

\* "8"
StrVersion8 == <<56>>

\* "a2V5"
StrKey == <<97, 50, 86, 53>>

\* "chat"
StrChat == <<99, 104, 97, 116>>

\* "mqtt"
StrMqtt == <<109, 113, 116, 116>>

\* "mqtt, chat"
StrMqttChat == <<109, 113, 116, 116, 44, 32, 99, 104, 97, 116>>

\* "x"
StrX == <<120>>

\* "permessage-deflate"
StrPermessageDeflate == <<112, 101, 114, 109, 101, 115, 115, 97, 103, 101, 45, 100, 101, 102, 108, 97, 116, 101>>

\* "permessage-deflate; client_max_window_bits"
StrDeflateOffer == <<112, 101, 114, 109, 101, 115, 115, 97, 103, 101, 45, 100, 101, 102, 108, 97, 116, 101, 59, 32, 99, 108, 105, 101, 110, 116, 95, 109, 97, 120, 95, 119, 105, 110, 100, 111, 119, 95, 98, 105, 116, 115>>

\* "258EAFA5-E914-47DA-95CA-C5AB0DC85B11"
websocketGUID == <<50, 53, 56, 69, 65, 70, 65, 53, 45, 69, 57, 49, 52, 45, 52, 55, 68, 65, 45, 57, 53, 67, 65, 45, 67, 53, 65, 66, 48, 68, 67, 56, 53, 66, 49, 49>>

\* strings.ToLower, strings.EqualFold, strings.Contains on ASCII
ToLower(s) == [i \in 1..Len(s) |-> IF s[i] \in 65..90 THEN s[i] + 32 ELSE s[i]]

EqualFold(a, b) == ToLower(a) = ToLower(b)

Contains(s, sub) ==
  \E i \in 0..(Len(s) - Len(sub)) : SubSeq(s, i + 1, i + Len(sub)) = sub

\* strings.Split(s, ","): the pieces between the commas, in order
RECURSIVE Split(_)
Split(s) ==
  IF \A i \in 1..Len(s) : s[i] # 44 THEN <<s>>
  ELSE LET i == CHOOSE j \in 1..Len(s) :
                  s[j] = 44 /\ \A k \in 1..(j - 1) : s[k] # 44
       IN <<SubSeq(s, 1, i - 1)>> \o Split(SubSeq(s, i + 1, Len(s)))

\* strings.TrimSpace: leading and trailing white space removed
IsSpace(c) == c \in {9, 10, 11, 12, 13, 32}

RECURSIVE TrimSpace(_)
TrimSpace(s) ==
  IF s = <<>> THEN s
  ELSE IF IsSpace(s[1]) THEN TrimSpace(Tail(s))
  ELSE IF IsSpace(s[Len(s)]) THEN TrimSpace(SubSeq(s, 1, Len(s) - 1))
  ELSE s

\* strings.Join(list, ", ")
RECURSIVE Join(_)
Join(list) ==
  IF list = <<>> THEN <<>>
  ELSE IF Len(list) = 1 THEN list[1]
  ELSE list[1] \o <<44, 32>> \o Join(Tail(list))

\* computeAcceptKey: base64(sha1(key ++ websocketGUID)); the digest is kept
\* as the tagged input, so two keys never have the same accept value
computeAcceptKey(key) == <<"sha1", key \o websocketGUID>>

\* the subprotocol loop of upgrade: the requested tokens are tried in the
\* client's order, each against the whole server list; <<>> when none matches
RECURSIVE SelectSubprotocol_ServerOrder(_, _)
SelectSubprotocol_ServerOrder(requested, supported) ==
  IF supported = <<>> THEN <<>>
  ELSE IF \E i \in 1..Len(requested) : TrimSpace(requested[i]) = Head(supported)
       THEN Head(supported)
       ELSE SelectSubprotocol_ServerOrder(requested, Tail(supported))

RECURSIVE SelectSubprotocol(_, _)
SelectSubprotocol(requested, supported) ==
  IF requested = <<>> THEN <<>>
  ELSE IF \E j \in 1..Len(supported) : supported[j] = TrimSpace(Head(requested))
       THEN TrimSpace(Head(requested))
       ELSE SelectSubprotocol(Tail(requested), supported)

NoResponse == [status |-> 0, upgrade |-> <<>>, connection |-> <<>>,
               accept |-> <<>>, protocol |-> <<>>, extensions |-> <<>>]

NoConn == [made |-> FALSE, isClient |-> FALSE, compression |-> FALSE]

\* what upgrade leaves behind: its error, the response header it set on w
\* before returning, the 101 it wrote to the hijacked connection, and the
\* Conn it returned
UpgradeResult(err, versionHeader, resp, wsConn) ==
  [err |-> err, versionHeader |-> versionHeader, resp |-> resp,
   conn |-> wsConn]

UpgradeFails(err, versionHeader) ==
  UpgradeResult(err, versionHeader, NoResponse, NoConn)

\* Upgrader.upgrade(w, r); hijackOk and writeOk are the outcomes of
\* w.Hijack() and of writing and flushing the response
upgrade(u, r, hijackOk, writeOk) ==
  IF r.method # "GET" THEN UpgradeFails("ErrUpgradeRequired", <<>>)
  ELSE IF ~EqualFold(r.upgrade, StrWebsocket)
    THEN UpgradeFails("ErrUpgradeRequired", <<>>)
  ELSE IF ~Contains(ToLower(r.connection), StrUpgradeLower)
    THEN UpgradeFails("ErrUpgradeRequired", <<>>)
  ELSE IF r.version # StrVersion13
    THEN UpgradeFails("ErrInvalidHandshake", StrVersion13)
  ELSE IF u.checkOrigin = "reject" THEN UpgradeFails("ErrInvalidOrigin", <<>>)
  ELSE IF r.key = <<>> THEN UpgradeFails("ErrInvalidHandshake", <<>>)
  ELSE
    LET negotiate == r.protocol # <<>> /\ Len(u.subprotocols) > 0
        selectedSubprotocol ==
          IF negotiate THEN SelectSubprotocol(Split(r.protocol), u.subprotocols)
          ELSE <<>>
    IN IF negotiate /\ selectedSubprotocol = <<>>
         THEN UpgradeFails("ErrInvalidSubprotocol", <<>>)
       ELSE IF ~u.hijacker THEN UpgradeFails("ErrInvalidHandshake", <<>>)
       ELSE IF ~hijackOk THEN UpgradeFails("hijackErr", <<>>)
       ELSE IF ~writeOk THEN UpgradeFails("writeErr", <<>>)
       ELSE UpgradeResult("nil", <<>>,
              [status |-> 101, upgrade |-> StrWebsocket,
               connection |-> StrUpgrade,
               accept |-> computeAcceptKey(r.key),
               protocol |-> selectedSubprotocol, extensions |-> <<>>],
              [made |-> TRUE, isClient |-> FALSE, compression |-> FALSE])

\* the request DialWithDialer writes for its options
DialRequest(opts) ==
  [method |-> "GET", upgrade |-> StrWebsocket, connection |-> StrUpgrade,
   key |-> StrKey, version |-> StrVersion13,
   protocol |-> IF Len(opts.Subprotocols) > 0 THEN Join(opts.Subprotocols)
                ELSE <<>>,
   extensions |-> IF opts.Compression THEN StrDeflateOffer ELSE <<>>]

\* DialWithDialer from the response on: its error and the Conn it returns
DialResult(err, wsConn) == [err |-> err, conn |-> wsConn]

DialValidate(opts, key, resp) ==
  IF resp.status # 101 THEN DialResult("unexpected status code", NoConn)
  ELSE IF ~EqualFold(resp.upgrade, StrWebsocket)
    THEN DialResult("ErrInvalidHandshake", NoConn)
  ELSE IF ~Contains(ToLower(resp.connection), StrUpgradeLower)
    THEN DialResult("ErrInvalidHandshake", NoConn)
  ELSE IF resp.accept # computeAcceptKey(key)
    THEN DialResult("ErrInvalidHandshake", NoConn)
  ELSE
    LET compressionEnabled ==
          opts.Compression /\ Contains(resp.extensions, StrPermessageDeflate)
    IN DialResult("nil", [made |-> TRUE, isClient |-> TRUE,
                          compression |-> compressionEnabled])

\* the inputs of one handshake
DialOptions ==
  [Compression : BOOLEAN,
   Subprotocols : {<<>>, <<StrChat>>, <<StrMqtt, StrChat>>, <<StrX>>}]

NoOptions == [Compression |-> FALSE, Subprotocols |-> <<>>]

ForeignRequests ==
  [method : {"GET", "POST"},
   upgrade : {StrWebsocket, StrWebSocketMixed, StrH2c},
   connection : {StrUpgrade, StrKeepAliveUpgrade, StrClose},
   key : {StrKey, <<>>},
   version : {StrVersion13, StrVersion8},
   protocol : {<<>>, StrChat, StrMqttChat, StrX},
   extensions : {<<>>, StrDeflateOffer}]

Upgraders ==
  [checkOrigin : {"nil", "accept", "reject"},
   subprotocols : {<<>>, <<StrChat>>, <<StrChat, StrMqtt>>},
   enableCompression : BOOLEAN,
   hijacker : BOOLEAN]

NoUpgrader == [checkOrigin |-> "nil", subprotocols |-> <<>>,
               enableCompression |-> FALSE, hijacker |-> TRUE]

\* a handshake about to happen: an axon client ("dial") or another client
\* ("foreign") has sent its request to an axon server ("upgrader") or to
\* another server ("foreign")
Handshake(client, opts, r, server, u) ==
  [pc |-> "request", client |-> client, opts |-> opts, req |-> r,
   server |-> server, u |-> u,
   up |-> UpgradeFails("none", <<>>), dial |-> DialResult("none", NoConn)]

Handshakes ==
  {Handshake("dial", o, DialRequest(o), "upgrader", u) :
     o \in DialOptions, u \in Upgraders}
  \cup {Handshake("foreign", NoOptions, r, "upgrader", u) :
          r \in ForeignRequests, u \in Upgraders}
  \cup {Handshake("dial", o, DialRequest(o), "foreign", NoUpgrader) :
          o \in DialOptions}

NoHandshake ==
  [Handshake("foreign", NoOptions, DialRequest(NoOptions), "foreign",
             NoUpgrader) EXCEPT !.pc = "done"]

InitHandshake(H) == hs \in H

\* the server runs upgrade on the request
Upgrade ==
  /\ hs.pc = "request"
  /\ hs.server = "upgrader"
  /\ \E hijackOk \in BOOLEAN, writeOk \in BOOLEAN :
       LET res == upgrade(hs.u, hs.req, hijackOk, writeOk)
       IN hs' = [hs EXCEPT !.up = res,
                           !.pc = IF hs.client = "dial" THEN "response"
                                  ELSE "done"]
  /\ UNCHANGED <<mqvars, qvars, cvars, dec>>

\* another server answers the dial: any status, accept value and extension
ForeignResponses ==
  [status : {101, 400}, upgrade : {StrWebsocket}, connection : {StrUpgrade},
   accept : {computeAcceptKey(StrKey), computeAcceptKey(<<>>)},
   protocol : {<<>>},
   extensions : {<<>>, StrPermessageDeflate}]

ForeignUpgrade ==
  /\ hs.pc = "request"
  /\ hs.server = "foreign"
  /\ \E resp \in ForeignResponses :
       hs' = [hs EXCEPT !.up = UpgradeResult("foreign", <<>>, resp, NoConn),
                        !.pc = "response"]
  /\ UNCHANGED <<mqvars, qvars, cvars, dec>>

\* the handler turns an error of upgrade into an HTTP error status
BadRequest == [NoResponse EXCEPT !.status = 400]

\* DialWithDialer reads the response and validates it
DialWithDialer ==
  /\ hs.pc = "response"
  /\ LET resp == IF hs.up.resp = NoResponse THEN BadRequest ELSE hs.up.resp
     IN hs' = [hs EXCEPT !.dial = DialValidate(hs.opts, hs.req.key, resp),
                         !.pc = "done"]
  /\ UNCHANGED <<mqvars, qvars, cvars, dec>>

NextUpgrade == Upgrade \/ ForeignUpgrade \/ DialWithDialer


(***************************************************************************)
(* The reconnect policy called on its own                                  *)
(***************************************************************************)
\* the inputs of the calls
MaxCode == 4001

CloseCodes == (999..1016) \cup (3999..MaxCode) \cup {0 - 1, 0, 65535}

PolicyConfigs ==
  [Enabled : BOOLEAN, MaxAttempts : 0..MaxAttempts + 1,
   ShouldReconnect : {"nil", "true", "false"}]

PolicyErrors ==
  {CloseError(c) : c \in {CloseNormalClosure, CloseGoingAway,
                          CloseNoStatusReceived, ApplicationCodes}}
  \cup {[kind |-> "wrapped", code |-> CloseNormalClosure],
        [kind |-> "other", code |-> 0]}

NoConfig == [Enabled |-> FALSE, MaxAttempts |-> 0, ShouldReconnect |-> "nil"]

Decision(fn, c, cfg, a, err) ==
  [fn |-> fn, code |-> c, cfg |-> cfg, attempts |-> a, err |-> err,
   returned |-> FALSE, result |-> FALSE]

Decisions ==
  {Decision("IsRecoverable", c, NoConfig, 0, CloseError(c)) : c \in CloseCodes}
  \cup {Decision("shouldReconnect", 0, cfg, a, err) :
          cfg \in PolicyConfigs, a \in 0..(MaxAttempts + 1), err \in PolicyErrors}

NoDecision ==
  [Decision("none", 0, NoConfig, 0, CloseError(0)) EXCEPT !.returned = TRUE]

InitDecision(D) == dec \in D

CallIsRecoverable ==
  /\ dec.fn = "IsRecoverable"
  /\ ~dec.returned
  /\ dec' = [dec EXCEPT !.returned = TRUE,
                        !.result = IsRecoverable(dec.code)]
  /\ UNCHANGED <<mqvars, qvars, cvars, hs>>

CallShouldReconnect ==
  /\ dec.fn = "shouldReconnect"
  /\ ~dec.returned
  /\ dec' = [dec EXCEPT !.returned = TRUE,
                        !.result = shouldReconnectFor(dec.cfg, dec.attempts,
                                                      dec.err)]
  /\ UNCHANGED <<mqvars, qvars, cvars, hs>>

NextPolicy == CallIsRecoverable \/ CallShouldReconnect

\* SpecClient: the lifecycle - two Connect callers, the read loop, the
\* reconnect tasks and Close; nobody writes, so the queue stays empty
NextClient ==
  \/ \E c \in Callers : ConnectCas(c)
  \/ \E c \in Callers : ConnectCasFailed(c)
  \/ \E c \in Callers : ConnectDialFail(c)
  \/ \E t \in Callers \cup RTasks : DialOk(t)
  \/ \E t \in Callers \cup RTasks : SetConnected(t)
  \/ \E t \in Callers \cup RTasks : ClientFlushSwap(t)
  \/ \E c \in Callers : ConnectFinish(c)
  \/ \E l \in RLoops : ReadLoopTop(l)
  \/ \E l \in RLoops : ReadLoopRead(l)
  \/ \E l \in RLoops : ReadLoopOnError(l)
  \/ \E l \in RLoops : HandleDisconnectCheck(l)
  \/ \E l \in RLoops : HandleDisconnectDecide(l)
  \/ \E r \in RTasks : ReconnectTop(r)
  \/ \E r \in RTasks : ReconnectAttempt(r)
  \/ \E r \in RTasks : ReconnectWaitCancelled(r)
  \/ \E r \in RTasks : ReconnectDialBegin(r)
  \/ \E r \in RTasks : ReconnectDialFail(r)
  \/ \E r \in RTasks : ReconnectFinish(r)
  \/ \E r \in RTasks : ReconnectFail(r)
  \/ ResetAfterElapses
  \/ CloseBegin
  \/ CloseCancel
  \/ CloseQueueSwap
  \/ CloseQueueClear
  \/ CloseConn
  \/ CloseWait
  \/ CloseFinal
  \/ CloseAgain

SpecClient ==
  /\ InitMQ(QueueSize)
  /\ InitClient(TRUE, {}, ClientReconnect)
  /\ InitStateManager({})
  /\ InitHandshake({NoHandshake}) /\ InitDecision({NoDecision})
  /\ InitConn(TRUE)
  /\ [][NextClient]_vars

\* SpecWrite: a caller of Client.Write on a client that ConnectWithReadLoop
\* has connected, next to the read loop, the reconnect tasks and Close; the
\* client is built with or without a queue
NextWrite ==
  \/ \E t \in RTasks : DialOk(t)
  \/ \E t \in RTasks : SetConnected(t)
  \/ \E t \in RTasks : ClientFlushSwap(t)
  \/ \E t \in RTasks : ClientFlushStep(t)
  \/ \E l \in RLoops : ReadLoopTop(l)
  \/ \E l \in RLoops : ReadLoopRead(l)
  \/ \E l \in RLoops : ReadLoopOnError(l)
  \/ \E l \in RLoops : HandleDisconnectCheck(l)
  \/ \E l \in RLoops : HandleDisconnectDecide(l)
  \/ \E r \in RTasks : ReconnectTop(r)
  \/ \E r \in RTasks : ReconnectAttempt(r)
  \/ \E r \in RTasks : ReconnectWaitCancelled(r)
  \/ \E r \in RTasks : ReconnectDialBegin(r)
  \/ \E r \in RTasks : ReconnectDialFail(r)
  \/ \E r \in RTasks : ReconnectFinish(r)
  \/ \E r \in RTasks : ReconnectFail(r)
  \/ ResetAfterElapses
  \/ \E w \in Writers : WriteBegin(w)
  \/ \E w \in Writers : WriteDirect(w)
  \/ \E w \in Writers : WriteEnqueueCheck(w)
  \/ \E w \in Writers : WriteEnqueueLocked(w)
  \/ \E w \in Writers : WriteResult(w)
  \/ \E w \in Writers : WriteCtxDone(w)
  \/ \E w \in Writers : CancelWriteCtx(w)
  \/ CloseBegin
  \/ CloseCancel
  \/ CloseQueueSwap
  \/ CloseQueueClear
  \/ CloseConn
  \/ CloseWait
  \/ CloseFinal
  \/ CloseAgain

SpecWrite ==
  /\ InitMQ(MaxWrites - 1)
  /\ \E q \in BOOLEAN : InitConnected(q, {}, ClientReconnect)
  /\ InitStateManager({})
  /\ InitHandshake({NoHandshake}) /\ InitDecision({NoDecision})
  /\ InitConn(TRUE)
  /\ [][NextWrite]_vars

\* SpecTasks: the background tasks of a client without a queue that
\* ConnectWithReadLoop has connected - a caller that calls
\* ConnectWithReadLoop again, the read loops, the reconnect tasks and Close
NextTasks ==
  \/ \E c \in {"c1"} : ConnectCas(c)
  \/ \E c \in {"c1"} : ConnectCasFailed(c)
  \/ \E c \in {"c1"} : ConnectDialFail(c)
  \/ \E t \in {"c1"} \cup RTasks : DialOk(t)
  \/ \E t \in {"c1"} \cup RTasks : SetConnected(t)
  \/ \E c \in {"c1"} : ConnectFinish(c)
  \/ \E l \in RLoops : ReadLoopTop(l)
  \/ \E l \in RLoops : ReadLoopRead(l)
  \/ \E l \in RLoops : ReadLoopOnError(l)
  \/ \E l \in RLoops : HandleDisconnectCheck(l)
  \/ \E l \in RLoops : HandleDisconnectDecide(l)
  \/ \E r \in RTasks : ReconnectTop(r)
  \/ \E r \in RTasks : ReconnectAttempt(r)
  \/ \E r \in RTasks : ReconnectWaitCancelled(r)
  \/ \E r \in RTasks : ReconnectDialBegin(r)
  \/ \E r \in RTasks : ReconnectDialFail(r)
  \/ \E r \in RTasks : ReconnectFinish(r)
  \/ \E r \in RTasks : ReconnectFail(r)
  \/ ResetAfterElapses
  \/ CloseBegin
  \/ CloseCancel
  \/ CloseConn
  \/ CloseWait
  \/ CloseFinal

SpecTasks ==
  /\ InitMQ(QueueSize)
  /\ InitConnected(FALSE, {"l2"}, ClientReconnect)
  /\ InitStateManager({})
  /\ InitHandshake({NoHandshake}) /\ InitDecision({NoDecision})
  /\ InitConn(TRUE)
  /\ [][NextTasks]_vars

\* SpecBackoff: the reconnector on its own - consecutive attempts, each
\* computing its delay, and resets of the counter, under every
\* configuration of ReconnectConfigs
BackoffAttempt ==
  /\ attempts < MaxBackoffSteps
  /\ attempt
  /\ UNCHANGED <<state, connv, hasQueue, ctxCancelled, wg, closev, tpc, callv,
                 rlpc, lastConnect, config, writev, cnv, cbs, smv, mqvars, qvars, hs, dec>>

\* reconnector.reset
BackoffReset ==
  /\ attempts > 0
  /\ attempts' = 0
  /\ UNCHANGED <<state, connv, hasQueue, ctxCancelled, wg, closev, tpc, callv,
                 rlpc, lastConnect, delay, config, writev, cnv, cbs, smv, mqvars, qvars, hs, dec>>

NextBackoff ==
  \/ BackoffAttempt
  \/ BackoffReset

SpecBackoff ==
  /\ InitMQ(QueueSize)
  /\ \E cfg \in ReconnectConfigs : InitClient(TRUE, {}, cfg)
  /\ InitStateManager({})
  /\ InitHandshake({NoHandshake}) /\ InitDecision({NoDecision})
  /\ InitConn(TRUE)
  /\ [][NextBackoff]_vars

\* SpecState: the stateManager on its own - two tasks call transition and
\* forceTransition concurrently, two handlers are subscribed

\* the change a successful swap leaves to be notified (part_009 110-117,
\* 133-141): forceTransition notifies nobody when from = to
Notification(from, to) ==
  IF from = to THEN NotNotifying ELSE [i |-> 1, from |-> from, to |-> to]

\* validTransitions (part_009 162-169): the lifecycle table
validTransitions ==
  [s \in States |->
     CASE s = "Disconnected" -> {"Connecting", "Closed"}
       [] s = "Connecting"   -> {"Connected", "Disconnected", "Closed"}
       [] s = "Connected"    -> {"Disconnected", "Reconnecting", "Closing",
                                 "Closed"}
       [] s = "Reconnecting" -> {"Connecting", "Connected", "Disconnected",
                                 "Closed"}
       [] s = "Closing"      -> {"Closed"}
       [] s = "Closed"       -> {}]

\* isValidTransition (part_009 172-183); no function of the package calls it
isValidTransition(from, to) ==
  from \in DOMAIN validTransitions /\ to \in validTransitions[from]

\* transition, lines 106-108: the compare-and-swap; on failure it returns
\* false and notifies nobody
TransitionCas(t, from, to) ==
  /\ notifying[t].i = 0
  /\ smCalls < MaxTransitions
  /\ from # to
  /\ smCalls' = smCalls + 1
  /\ IF transition(from)
     THEN /\ state' = to
          /\ applied' = Append(applied, <<from, to>>)
          /\ notifying' = [notifying EXCEPT ![t] = Notification(from, to)]
     ELSE UNCHANGED <<state, applied, notifying>>
  /\ UNCHANGED <<seen, connv, hasQueue, ctxCancelled, wg, closev, tpc, callv,
                 rlpc, recv, writev, cnv, cbs, mqvars, qvars, hs, dec>>

\* forceTransition, line 131: the swap
ForceTransitionSwap(t, to) ==
  /\ notifying[t].i = 0
  /\ smCalls < MaxTransitions
  /\ smCalls' = smCalls + 1
  /\ state' = forceTransition(to)
  /\ applied' = IF state = to THEN applied ELSE Append(applied, <<state, to>>)
  /\ notifying' = [notifying EXCEPT ![t] = Notification(state, to)]
  /\ UNCHANGED <<seen, connv, hasQueue, ctxCancelled, wg, closev, tpc, callv,
                 rlpc, recv, writev, cnv, cbs, mqvars, qvars, hs, dec>>

\* lines 119-124 / 143-148: the caller invokes the next handler with its
\* change
NotifyHandler(t) ==
  /\ notifying[t].i # 0
  /\ LET h == HandlerOrder[notifying[t].i]
     IN /\ seen' = [seen EXCEPT ![h] = Append(@, <<notifying[t].from, notifying[t].to>>)]
        /\ notifying' = [notifying EXCEPT ![t] =
                           IF notifying[t].i = Len(HandlerOrder) THEN NotNotifying
                           ELSE [@ EXCEPT !.i = @ + 1]]
  /\ UNCHANGED <<state, applied, smCalls, connv, hasQueue, ctxCancelled, wg,
                 closev, tpc, callv, rlpc, recv, writev, cnv, cbs, mqvars, qvars, hs, dec>>

NextState ==
  \/ \E t \in STasks : \E from, to \in States : TransitionCas(t, from, to)
  \/ \E t \in STasks : \E to \in States : ForceTransitionSwap(t, to)
  \/ \E t \in STasks : NotifyHandler(t)

SpecState ==
  /\ InitMQ(QueueSize)
  /\ InitClient(TRUE, {}, ClientReconnect)
  /\ InitStateManager(Handlers)
  /\ InitHandshake({NoHandshake}) /\ InitDecision({NoDecision})
  /\ InitConn(TRUE)
  /\ [][NextState]_vars

SpecConn ==
  /\ InitMQ(QueueSize)
  /\ InitClient(TRUE, {}, ClientReconnect)
  /\ InitStateManager({})
  /\ InitHandshake({NoHandshake}) /\ InitDecision({NoDecision})
  /\ \E client \in BOOLEAN : InitConn(client)
  /\ [][NextConn]_vars

\* SpecUpgrade: one opening handshake - an axon or a foreign client against
\* an axon or a foreign server, under every request and configuration
SpecUpgrade ==
  /\ InitMQ(QueueSize)
  /\ InitClient(TRUE, {}, ClientReconnect)
  /\ InitStateManager({})
  /\ InitHandshake(Handshakes)
  /\ InitDecision({NoDecision})
  /\ InitConn(TRUE)
  /\ [][NextUpgrade]_vars

\* SpecPolicy: one call of IsRecoverable or of shouldReconnect, under every
\* close code in CloseCodes and every configuration, attempt count and error
SpecPolicy ==
  /\ InitMQ(QueueSize)
  /\ InitClient(TRUE, {}, ClientReconnect)
  /\ InitStateManager({})
  /\ InitHandshake({NoHandshake})
  /\ InitDecision(Decisions)
  /\ InitConn(TRUE)
  /\ [][NextPolicy]_vars

SpecRead ==
  /\ InitMQ(QueueSize)
  /\ InitClient(TRUE, {}, ClientReconnect)
  /\ InitStateManager({})
  /\ InitHandshake({NoHandshake}) /\ InitDecision({NoDecision})
  /\ \E side \in ConnSides : InitConnWith(side.client, side.deflate)
  /\ [][NextRead]_vars

(***************************************************************************)
(* Properties of the Client lifecycle                                      *)
(***************************************************************************)
Dialing == {c \in Callers : tpc[c] = "dial"}
LiveTasks == {l \in RLoops : rlpc[l] \notin {"none", "off"}} \cup {r \in RTasks : tpc[r] # "none"}
PosInCloseOrder(x) == CHOOSE k \in 1..Len(CloseOrder) : CloseOrder[k] = x
InCloseLog(x) == \E k \in 1..Len(closeLog) : closeLog[k] = x

\* C1 (as stated): once the state is Closed no step changes it.
C1_ClosedAbsorbing ==
  [][state = "Closed" => state' = "Closed"]_vars

QEnqueueBegin(t) ==
  /\ UNCHANGED <<cvars, hs, dec>>
  /\ qpc[t] = "idle"
  /\ enqCalls < MaxEnqueueCalls
  /\ enqCalls' = enqCalls + 1
  /\ IF mq_closed
     THEN /\ qret' = "ErrQueueClosed"
          /\ UNCHANGED qpc
     ELSE /\ qpc' = [qpc EXCEPT ![t] = "enq"]
          /\ UNCHANGED qret
  /\ UNCHANGED <<mq_queue, mq_maxSize, mq_closed, mq_dropped, mq_enqueued, mq_sent, errCh,
                 chClosed, sendLog, flushing, ctxDone, enqRejected, mq_closeDone>>

\* Enqueue, locked part; ctx is the context the caller passed
QEnqueueLocked(t, ctx) ==
  /\ UNCHANGED <<cvars, hs, dec>>
  /\ qpc[t] = "enq"
  /\ EnqueueLocked(ctx)
  /\ qret' = IF QueueIsFull(mq_queue) THEN "ErrQueueFull" ELSE "ok"
  /\ qpc' = [qpc EXCEPT ![t] = "idle"]
  /\ UNCHANGED <<mq_maxSize, mq_closed, mq_sent, errCh, chClosed, sendLog, flushing,
                 ctxDone, enqCalls, mq_closeDone>>

\* Flush, locked swap
QFlushBegin(t) ==
  /\ UNCHANGED <<cvars, hs, dec>>
  /\ qpc[t] = "idle"
  /\ \E nExp \in 0..Len(mq_queue) : FlushSwap(t, nExp)
  /\ qpc' = [qpc EXCEPT ![t] = IF mq_queue = <<>> THEN "idle" ELSE "flush"]
  /\ UNCHANGED <<mq_maxSize, mq_closed, mq_dropped, mq_enqueued, mq_sent, errCh, chClosed,
                 sendLog, ctxDone, enqCalls, enqRejected, mq_closeDone, qret>>

\* Flush, one loop iteration; sendFn answers nil or an error
QFlushStep(t) ==
  /\ UNCHANGED <<cvars, hs, dec>>
  /\ qpc[t] = "flush"
  /\ \E o \in {"ok", "sendErr"} : FlushStep(t, o)
  /\ qpc' = [qpc EXCEPT ![t] = IF flushing[t].i = Len(flushing[t].batch) THEN "idle" ELSE "flush"]
  /\ UNCHANGED <<mq_queue, mq_maxSize, mq_closed, mq_enqueued, ctxDone, enqCalls,
                 enqRejected, mq_closeDone, qret>>

\* Clear called directly
QClear(t) ==
  /\ UNCHANGED <<cvars, hs, dec>>
  /\ qpc[t] = "idle"
  /\ Clear
  /\ UNCHANGED <<mq_maxSize, mq_closed, mq_enqueued, mq_sent, sendLog, flushing, ctxDone,
                 enqCalls, enqRejected, mq_closeDone, qvars, hs, dec>>

\* Close, first statement: mq.closed.Swap(true)
QCloseBegin(t) ==
  /\ UNCHANGED <<cvars, hs, dec>>
  /\ qpc[t] = "idle"
  /\ mq_closed' = TRUE
  /\ qpc' = [qpc EXCEPT ![t] = IF mq_closed THEN "idle" ELSE "close"]
  /\ UNCHANGED <<mq_queue, mq_maxSize, mq_dropped, mq_enqueued, mq_sent, errCh, chClosed,
                 sendLog, flushing, ctxDone, enqCalls, enqRejected, mq_closeDone,
                 qret>>

\* Close, second statement: mq.Clear()
QCloseClear(t) ==
  /\ UNCHANGED <<cvars, hs, dec>>
  /\ qpc[t] = "close"
  /\ Clear
  /\ mq_closeDone' = TRUE
  /\ qpc' = [qpc EXCEPT ![t] = "idle"]
  /\ UNCHANGED <<mq_maxSize, mq_closed, mq_enqueued, mq_sent, sendLog, flushing, ctxDone,
                 enqCalls, enqRejected, qret>>

\* the caller of an Enqueue cancels the context it passed
CancelCtx(c) ==
  /\ UNCHANGED <<cvars, hs, dec>>
  /\ c \notin ctxDone
  /\ c # "bg"
  /\ ctxDone' = ctxDone \cup {c}
  /\ UNCHANGED <<mq_queue, mq_maxSize, mq_closed, mq_dropped, mq_enqueued, mq_sent, errCh,
                 chClosed, sendLog, flushing, enqCalls, enqRejected, mq_closeDone,
                 qvars, hs, dec>>

NextQueue ==
  \/ \E t \in QThreads : QEnqueueBegin(t)
  \/ \E t \in QThreads, c \in Ctxs : QEnqueueLocked(t, c)
  \/ \E t \in QThreads : QFlushBegin(t)
  \/ \E t \in QThreads : QFlushStep(t)
  \/ \E t \in QThreads : QClear(t)
  \/ \E t \in QThreads : QCloseBegin(t)
  \/ \E t \in QThreads : QCloseClear(t)
  \/ \E c \in Ctxs : CancelCtx(c)

SpecQueue == InitMQ(QueueSize) /\ InitClient(TRUE, {}, ClientReconnect) /\ InitStateManager({}) /\ InitHandshake({NoHandshake}) /\ InitDecision({NoDecision}) /\ InitConn(TRUE) /\ [][NextQueue]_vars

(***************************************************************************)
(* SpecFifo: scenario S6 at the queue - the messages are enqueued while    *)
(* the client is reconnecting and flushed after the reconnect; the queue   *)
(* is large enough to hold them all and nobody clears or closes it.        *)
(***************************************************************************)
NextFifo ==
  \/ \E t \in QThreads : QEnqueueBegin(t)
  \/ \E t \in QThreads, c \in Ctxs : QEnqueueLocked(t, c)
  \/ \E t \in QThreads : QFlushBegin(t)
  \/ \E t \in QThreads : QFlushStep(t)
  \/ \E c \in Ctxs : CancelCtx(c)

SpecFifo == InitMQ(MaxEnqueueCalls) /\ InitClient(TRUE, {}, ClientReconnect) /\ InitStateManager({}) /\ InitHandshake({NoHandshake}) /\ InitDecision({NoDecision}) /\ InitConn(TRUE) /\ [][NextFifo]_vars

(***************************************************************************)
(* Properties of the MessageQueue                                          *)
(***************************************************************************)
RECURSIVE SumOver(_, _)
SumOver(S, f) ==
  IF S = {} THEN 0
  ELSE LET x == CHOOSE y \in S : TRUE IN f[x] + SumOver(S \ {x}, f)

\* entries a running Flush has taken out of the queue and not yet handled
Pending(t) ==
  {flushing[t].batch[k].id : k \in {j \in 1..Len(flushing[t].batch) : j >= flushing[t].i}}
InFlight == SumOver(DOMAIN flushing, [t \in DOMAIN flushing |-> Cardinality(Pending(t))])
QueuedIds == {mq_queue[k].id : k \in 1..Len(mq_queue)}
PendingIds == UNION {Pending(t) : t \in DOMAIN flushing}
Outcomes == {"ok", "ErrQueueTimeout", "ctxErr", "sendErr", "ErrQueueCleared"}
SendsOf(id) == Cardinality({k \in 1..Len(sendLog) : sendLog[k].id = id})

C6_ExactlyOneOutcome ==
  /\ \A id \in EntryIds :
       /\ Len(errCh[id]) <= 1
       /\ chClosed[id] = Len(errCh[id])
       /\ SendsOf(id) <= 1
       /\ \A k \in 1..Len(errCh[id]) : errCh[id][k] \in Outcomes
       /\ (id <= mq_enqueued /\ id \notin QueuedIds /\ id \notin PendingIds)
            => Len(errCh[id]) = 1
       /\ (id \in QueuedIds \cup PendingIds) => Len(errCh[id]) = 0
  /\ \A k \in 1..Len(sendLog) : sendLog[k].after = 0

C6_Witness ==
  /\ \E id \in EntryIds : errCh[id] = <<"ErrQueueCleared">>
  /\ \E id \in EntryIds : errCh[id] = <<"ok">>
  /\ \E id \in EntryIds : errCh[id] \in {<<"ErrQueueTimeout">>, <<"ctxErr">>, <<"sendErr">>}
  /\ mq_closeDone

\* C7: each Flush hands its entries to sendFn in the order in which Enqueue
\* accepted them; when A, B, C (ids 1, 2, 3) were enqueued and one Flush
\* sent all three successfully, sendFn saw them in the order A, B, C and
\* the queue reports sent = 3 and dropped = 0.
C7_FlushFifo ==
  /\ \A i, j \in 1..Len(sendLog) :
       (i < j /\ sendLog[i].by = sendLog[j].by) => sendLog[i].id < sendLog[j].id
  /\ \A t \in QThreads :
       (/\ enqCalls = 3
        /\ \A k \in 1..Len(sendLog) : sendLog[k].by = t
        /\ \A id \in 1..3 : errCh[id] = <<"ok">>)
       => /\ [k \in 1..Len(sendLog) |-> sendLog[k].id] = <<1, 2, 3>>
          /\ mq_sent = 3
          /\ mq_dropped = 0

C7_Witness ==
  /\ enqCalls = 3
  /\ \E t \in QThreads : \A k \in 1..Len(sendLog) : sendLog[k].by = t
  /\ \A id \in 1..3 : errCh[id] = <<"ok">>
  /\ mq_sent = 3

\* C8: the size never exceeds max_size, and once Close has returned the
\* queue holds no entry.
C8_ClosedQueueEmpty ==
  /\ Len(mq_queue) <= mq_maxSize
  /\ mq_closeDone => mq_queue = <<>>

(***************************************************************************)
(* Properties of Client.Write                                              *)
(***************************************************************************)
Returned(w) == wpc[w] = "idle" /\ wobs[w] # "none"
QueuePath(w) == hasQueue /\ wobs[w] \in {"Reconnecting", "Connecting"}
EntryResult(w) ==
  \/ errCh[wentry[w]] # <<>> /\ wret[w] = errCh[wentry[w]][1]
  \/ w \in ctxDone /\ wret[w] = "ctxErr"

C3_WritesHoldMutex ==
  /\ \A t \in writing : building[t].held
  /\ \A k \in 1..Len(wire) : wire[k].held
  /\ Cardinality(writing) <= 1

\* C4: every frame of a client-side connection has the mask bit set and its
\* payload XOR-masked with the key it carries; every frame of a server-side
\* connection has the mask bit clear
C4_ClientFramesMasked ==
  \A k \in 1..Len(wire) :
    IF isClient
    THEN /\ wire[k].maskBit
         /\ Len(wire[k].key) = 4
         /\ wire[k].payload = maskBytes(wire[k].plain, wire[k].key)
    ELSE ~wire[k].maskBit

(***************************************************************************)
(* Properties of the closed client                                         *)
(***************************************************************************)
\* C11: a Connect call that begins after Close has returned returns
\* ErrConnectionClosed
C11_ConnectAfterClose ==
  [][\A c \in Callers :
       (c \in clate /\ tpc[c] # "idle" /\ tpc'[c] = "idle")
         => cret' = "ErrConnectionClosed"]_vars

(***************************************************************************)
(* Properties of disconnect handling and the reconnect task                *)
(***************************************************************************)
RunningReconnects == {r \in RTasks : tpc[r] # "none"}
\* positions of a reconnect task's successful attempt, in program order
ReconnectOrder == <<"wait", "dial", "installed", "flush", "flushloop", "finish", "none">>
PosInReconnectOrder(x) == CHOOSE k \in 1..Len(ReconnectOrder) : ReconnectOrder[k] = x
ReconnectPermitted == ~(MaxAttempts > 0 /\ attempts >= MaxAttempts)

C13_VanishedPeerDisconnects ==
  \A l \in RLoops : rlpc[l] \notin {"i/o timeout", "io.ErrUnexpectedEOF"}

\* C14: a reconnect task never holds the error of its dial function as the
\* result of reconnectLoop, and with MaxAttempts > 0 the attempt counter
\* never exceeds MaxAttempts
C14_ReconnectLoopBounded ==
  /\ \A r \in RTasks : tpc[r] # "dialErr"
  /\ MaxAttempts > 0 => attempts <= MaxAttempts

\* C15: when the read loop detects the loss of a connection that a
\* reconnect task established ResetAfter ago or more, the attempt counter
\* the new outage starts from is 0
C15_ResetAfterStableConnection ==
  [][\A l \in RLoops :
       (/\ rlpc[l] = "read" /\ rlpc'[l] = "hd"
        /\ lastConnect = "old"
        /\ RunningReconnects = {}
        /\ conn = nconn /\ nconn > 1)
         => attempts = 0]_vars

\* C16: without jitter the delay of the k-th consecutive attempt is
\* InitialDelay * BackoffMultiplier^(k-1) capped at MaxDelay; k - 1 is the
\* value of the counter before the attempt
C16_BackoffSchedule ==
  [][(~config.Jitter /\ attempts' = attempts + 1)
       => delay' \in nextDelay(config, attempts)]_vars

\* the multiplier of the configuration is at least 1
GrowingBackoff == config.BackoffMultiplier.num >= config.BackoffMultiplier.den

\* a delay within the bound: MaxDelay, or 1.25 * MaxDelay with jitter
DelayBounded(d) ==
  IF config.Jitter THEN 4 * d <= 5 * config.MaxDelay ELSE d <= config.MaxDelay

\* e is not below d up to the jitter: both may be off their base by 25%
DelayNotBelow(d, e) ==
  IF config.Jitter THEN 5 * e >= 3 * d ELSE e >= d

\* C17 (as stated): every delay is within the bound, and the delay of an
\* attempt is not below the delay of the attempt before it (up to jitter),
\* under every configuration
C17_DelaysMonotoneBounded ==
  [][attempts' = attempts + 1
       => /\ DelayBounded(delay')
          /\ attempts >= 1 => DelayNotBelow(delay, delay')]_vars

\* C17 (amended): every delay is within the bound; with a multiplier of at
\* least 1 the delay of an attempt is not below the delay of the attempt
\* before it (up to jitter)
C17_Amended ==
  [][attempts' = attempts + 1
       => /\ DelayBounded(delay')
          /\ (attempts >= 1 /\ GrowingBackoff) => DelayNotBelow(delay, delay')]_vars

\* a third consecutive attempt under a growing backoff whose jitter put the
\* delay above MaxDelay
C17_Witness ==
  /\ attempts >= 3
  /\ GrowingBackoff
  /\ config.Jitter
  /\ delay > config.MaxDelay

RunningReadLoops == {l \in RLoops : rlpc[l] \notin {"none", "off"}}

\* C18: at most one read loop and at most one reconnect task run at any
\* time
C18_OneLoopOneReconnect ==
  /\ Cardinality(RunningReadLoops) <= 1
  /\ Cardinality(RunningReconnects) <= 1

\* the tasks about to run r.attempts++ (reconnect.go 140)
Incrementing == {r \in RTasks : tpc[r] = "attempt"}

\* C19: a step that writes attempts or lastConnect is a step of a
\* reconnect task, and no two tasks are at a write of the counter at once
C19_ReconnectorOwnedByTask ==
  [][/\ (attempts' # attempts \/ (lastConnect' # lastConnect /\ lastConnect' = "recent"))
          => \E r \in RTasks : tpc'[r] # tpc[r]
     /\ Cardinality(Incrementing) <= 1]_vars

IsPrefix(a, b) == Len(a) <= Len(b) /\ SubSeq(b, 1, Len(a)) = a

\* C20: every handler has seen a prefix of the changes in the order they
\* were applied to the state, so any two handlers agree on the events both
\* have seen, and each event's From is the To of the event before it
C20_HandlersSeeAppliedOrder ==
  \A h \in DOMAIN seen :
    /\ IsPrefix(seen[h], applied)
    /\ \A k \in 1..(Len(seen[h]) - 1) : seen[h][k + 1][1] = seen[h][k][2]

\* C21: callbacks are delivered in causal order: a message read from a
\* connection reaches on_message only after on_connect was invoked for that
\* connection, and on_connect for a connection that replaces another is
\* invoked only after on_disconnect was invoked for the one it replaces
MessageDelivered == \E l \in RLoops : rlpc[l] = "read" /\ rlpc'[l] = "top"
C21_CallbacksCausal ==
  [][/\ MessageDelivered => conn \in cbs.connected
     /\ \A k \in cbs'.connected \ cbs.connected :
          \A j \in 1..(k - 1) : j \in cbs.lost]_vars

\* C22: Conn.Close is idempotent: a call made after one has returned sends
\* nothing, changes nothing and returns nil; once the connection is closed,
\* by Close or by a close frame Read consumed, every Read and every Write
\* that begins returns ErrConnectionClosed
LaterCloseCall == kpc["cl"] = "done" /\ kpc'["cl"] # "done"
CallBegins(t) == kpc[t] = "idle" /\ kpc'[t] # "idle"
C22_CloseIdempotent ==
  [][/\ LaterCloseCall =>
          /\ kpc'["cl"] = "again"
          /\ UNCHANGED <<wire, building, writing, closed, clsv>>
     /\ (kpc["cl"] \notin {"idle", "again"} \/ rd.ctl.op = "close") => closed
     /\ \A t \in {"rd", "app"} :
          (closed /\ CallBegins(t)) => kpc'[t] = "ErrConnectionClosed"]_vars
C22_Witness ==
  /\ kpc["cl"] = "again"
  /\ kpc["rd"] = "ErrConnectionClosed"
  /\ kpc["app"] = "ErrConnectionClosed"
  /\ \E i \in 1..Len(wire) : wire[i].op = "close"

\* C23: when a Conn.Close call has returned, the ping loop has terminated
\* and the transport has been closed, also when a close frame consumed by
\* Read had marked the connection closed before
C23_CloseJoinsAndReleases ==
  kpc["cl"] \in {"done", "again"} => (kpc["ping"] = "exited" /\ netClosed)

\* C26: when Read consumes a close frame the connection becomes closed,
\* CloseCode() is the big-endian 16-bit value of the first two payload bytes
\* (1000 when the payload is shorter), CloseReason() is the payload after
\* the first two bytes, and Read returns ErrConnectionClosed
CloseFrameConsumed == rd.ctl.op = "close"
FrameCloseCode == IF Len(rd.ctl.payload) < 2 THEN 1000
                  ELSE 256 * rd.ctl.payload[1] + rd.ctl.payload[2]
FrameCloseReason == [i \in 1..(Len(rd.ctl.payload) - 2) |-> rd.ctl.payload[i + 2]]
C26_CloseFrameLatched ==
  CloseFrameConsumed =>
    /\ closed
    /\ rret.err = "ErrConnectionClosed"
    /\ closeCode = FrameCloseCode
    /\ closeReason = FrameCloseReason

\* C26 as the code has it: the code and the reason are those of the frame
\* when the frame is what closed the connection; when Conn.Close had begun
\* before the frame was consumed they stay the ones passed to Close
C26_Amended ==
  CloseFrameConsumed =>
    /\ closed
    /\ rret.err = "ErrConnectionClosed"
    /\ closeBy = "Read" => (closeCode = FrameCloseCode /\ closeReason = FrameCloseReason)
    /\ closeBy = "Close" => (closeCode = NormalClosure /\ closeReason = ClientClosedReason)
C26_Witness ==
  /\ CloseFrameConsumed
  /\ closeBy = "Read"
  /\ closeCode = 1002
  /\ closeReason = <<111>>
  /\ kpc["rd"] = "ErrConnectionClosed"

\* the Read call that returned last consumed frames
ReadReturned == kpc["rd"] = "idle" /\ rd.frames # <<>>
IsData(f) == f.op \in {"text", "binary", "continuation"}
DataOf(log) == SelectSeq(log, IsData)
RECURSIVE Flatten(_)
Flatten(fs) == IF fs = <<>> THEN <<>> ELSE Head(fs).payload \o Flatten(Tail(fs))
LastFrame == rd.frames[Len(rd.frames)]
EarlierData == DataOf(SubSeq(rd.frames, 1, Len(rd.frames) - 1))
\* the data frames make one message: a text or binary frame, then
\* continuation frames, and only the last one has fin set
OneMessage(data) ==
  /\ data # <<>>
  /\ data[1].op \in {"text", "binary"}
  /\ \A i \in 2..Len(data) : data[i].op = "continuation"
  /\ \A i \in 1..Len(data) : data[i].fin <=> i = Len(data)

\* C24: Read returns a message only as the concatenation, in arrival order,
\* of the payloads of one text or binary frame followed by continuation
\* frames, ending with the first frame that has fin set; a continuation
\* frame with no message in progress, or a text or binary frame with a
\* message in progress, makes Read fail with ErrInvalidFrame
C24_MessageReassembly ==
  ReadReturned =>
    /\ rret.err = "nil" =>
         /\ OneMessage(DataOf(rd.frames))
         /\ LastFrame = DataOf(rd.frames)[Len(DataOf(rd.frames))]
         /\ rret = Deliver(Flatten(DataOf(rd.frames)))
    /\ (readFrame(LastFrame) = "nil" /\ LastFrame.op = "continuation" /\ EarlierData = <<>>)
         => rret.err = "ErrInvalidFrame"
    /\ (readFrame(LastFrame) = "nil" /\ LastFrame.op \in {"text", "binary"}
          /\ EarlierData # <<>>)
         => rret.err = "ErrInvalidFrame"
C24_Witness ==
  /\ ReadReturned
  /\ ~compression
  /\ rd.frames = <<InFrame("text", FALSE, FALSE, Hel),
                   InFrame("continuation", TRUE, FALSE, <<108, 111>>)>>
  /\ rret = [err |-> "nil", msg |-> <<72, 101, 108, 108, 111>>]

\* C25: for every ping Read consumes, the next frame the connection writes
\* is a pong with the payload of the ping, unmasked on a server connection,
\* and Read goes on: a message after the ping, or fragmented around it, is
\* delivered unchanged
PingConsumed == kpc["rd"] = "recv" /\ kpc'["rd"] = "pong"
PongWritten == kpc["rd"] = "pong" /\ kpc'["rd"] = "recv"
HasPing(log) == \E i \in 1..Len(log) : log[i].op = "ping"
C25_PingAnsweredByPong ==
  [][/\ PingConsumed =>
          /\ rd'.frames[Len(rd'.frames)].op = "ping"
          /\ building'["rd"].op = "pong"
          /\ building'["rd"].payload = rd'.frames[Len(rd'.frames)].payload
          /\ ~isClient => ~building'["rd"].maskBit
          /\ wire' = wire
     /\ PongWritten =>
          /\ wire' = Append(wire, building["rd"])
          /\ rd' = rd
     /\ (ReadReturned' /\ rret'.err = "nil" /\ HasPing(rd'.frames)) =>
          /\ OneMessage(DataOf(rd'.frames))
          /\ rret' = Deliver(Flatten(DataOf(rd'.frames)))]_vars
C25_Witness ==
  /\ ReadReturned
  /\ ~isClient
  /\ rd.frames = <<InFrame("text", FALSE, FALSE, Hel), InFrame("ping", TRUE, FALSE, <<7>>),
                   InFrame("continuation", TRUE, FALSE, <<108, 111>>)>>
  /\ rret = [err |-> "nil", msg |-> <<72, 101, 108, 108, 111>>]
  /\ Len(wire) = 1
  /\ wire[1].op = "pong"
  /\ wire[1].payload = <<7>>
  /\ ~wire[1].maskBit

\* C27: the message size limit holds in both directions: Read never returns
\* a message larger than maxMessageSize and fails with ErrMessageTooLarge
\* as soon as the accumulated payload exceeds the limit; Write of a message
\* whose serialized size exceeds the limit fails with ErrMessageTooLarge
\* and writes no byte
WriteSerialized == kpc["app"] = "frame" /\ kpc'["app"] # "frame"
C27_MessageSizeLimit ==
  [][/\ (ReadReturned' /\ rret'.err = "nil") => Len(rret'.msg) <= MaxMessageSize
     /\ Len(rd'.messagePayload) > MaxMessageSize =>
          (kpc'["rd"] = "idle" /\ rret'.err = "ErrMessageTooLarge")
     /\ WriteSerialized =>
          \/ /\ kpc'["app"] = "flush"
             /\ Len(building'["app"].plain) <= MaxMessageSize
          \/ /\ kpc'["app"] = "ErrMessageTooLarge"
             /\ UNCHANGED <<wire, building, writing>>]_vars

\* C29: Read inflates the payload of a message if and only if the first
\* data frame of the message had rsv1 set: with compression negotiated a
\* frame with rsv1 set is accepted and its message is inflated; a message
\* whose frames have rsv1 clear is delivered without inflating, whether or
\* not compression was negotiated
WellFormedMessage(data) ==
  /\ OneMessage(data)
  /\ LastFrame = data[Len(data)]
  /\ \A i \in 1..Len(data) : Len(data[i].payload) <= MaxFrameSize
  /\ \A i \in 2..Len(data) : ~data[i].rsv1
  /\ data[1].rsv1 => (compression /\ Decompress(Flatten(data)).err = "nil")
  /\ Len(Flatten(data)) \in 1..MaxMessageSize
C29_InflateIffRsv1 ==
  (ReadReturned /\ WellFormedMessage(DataOf(rd.frames))) =>
    /\ rret.err = "nil"
    /\ rret.msg = Unmarshal(IF DataOf(rd.frames)[1].rsv1
                            THEN Decompress(Flatten(DataOf(rd.frames))).out
                            ELSE Flatten(DataOf(rd.frames)))

(***************************************************************************)
(* Properties of the opening handshake                                     *)
(***************************************************************************)
UpgradeReturned == hs.server = "upgrader" /\ hs.up.err # "none"

NotAnUpgrade ==
  \/ hs.req.method # "GET"
  \/ ~EqualFold(hs.req.upgrade, StrWebsocket)
  \/ ~Contains(ToLower(hs.req.connection), StrUpgradeLower)

OfferedTokens ==
  LET parts == Split(hs.req.protocol)
  IN [i \in 1..Len(parts) |-> TrimSpace(parts[i])]

InServerList(t) ==
  \E j \in 1..Len(hs.u.subprotocols) : hs.u.subprotocols[j] = t

Negotiates == hs.req.protocol # <<>> /\ hs.u.subprotocols # <<>>

\* the errors the request has earned
Rejections ==
  {e \in {"ErrUpgradeRequired", "ErrInvalidHandshake", "ErrInvalidOrigin",
          "ErrInvalidSubprotocol"} :
     \/ e = "ErrUpgradeRequired" /\ NotAnUpgrade
     \/ e = "ErrInvalidHandshake"
          /\ (hs.req.version # StrVersion13 \/ hs.req.key = <<>>)
     \/ e = "ErrInvalidOrigin" /\ hs.u.checkOrigin = "reject"
     \/ e = "ErrInvalidSubprotocol"
          /\ Negotiates
          /\ \A i \in 1..Len(OfferedTokens) : ~InServerList(OfferedTokens[i])}

FirstOffered ==
  IF ~Negotiates THEN <<>>
  ELSE LET i == CHOOSE k \in 1..Len(OfferedTokens) :
                  /\ InServerList(OfferedTokens[k])
                  /\ \A m \in 1..(k - 1) : ~InServerList(OfferedTokens[m])
       IN OfferedTokens[i]

\* C30: upgrade rejects a request that has earned an error with one of the
\* errors it has earned and without writing a 101 - ErrUpgradeRequired for
\* a method other than GET, an Upgrade header other than websocket or a
\* Connection header without upgrade, ErrInvalidHandshake for a version
\* other than 13 (with the response header Sec-WebSocket-Version: 13 set)
\* or an empty key, ErrInvalidOrigin for a failed origin check,
\* ErrInvalidSubprotocol when subprotocols are offered, the server list is
\* not empty and no offered token is in it; a 101 carries the first
\* client-offered token that is in the server list.
C30_UpgradeRejections ==
  UpgradeReturned =>
    /\ Rejections # {} => hs.up.err \in Rejections /\ hs.up.resp = NoResponse
    /\ ~NotAnUpgrade /\ hs.req.version # StrVersion13
         => /\ hs.up.err = "ErrInvalidHandshake"
            /\ hs.up.versionHeader = StrVersion13
    /\ hs.up.resp.status = 101 => hs.up.resp.protocol = FirstOffered

C30_Witness ==
  /\ UpgradeReturned
  /\ hs.up.resp.status = 101
  /\ hs.req.protocol = StrMqttChat
  /\ hs.u.subprotocols = <<StrChat, StrMqtt>>
  /\ hs.up.resp.protocol = StrMqtt

RequestAdvertises == Contains(hs.req.extensions, StrPermessageDeflate)

ResponseAdvertises ==
  hs.up.resp.status = 101 /\ Contains(hs.up.resp.extensions, StrPermessageDeflate)

\* C28: a connection has compression enabled iff the request and the
\* response both advertised permessage-deflate; a server configured for
\* compression that gets a request advertising it advertises it in its 101
\* and enables compression on its connection; the two ends agree.
C28_CompressionNegotiated ==
  /\ \A c \in {hs.up.conn, hs.dial.conn} :
       c.made => (c.compression <=> RequestAdvertises /\ ResponseAdvertises)
  /\ hs.server = "upgrader" /\ hs.u.enableCompression /\ RequestAdvertises
       /\ hs.up.resp.status = 101
       => ResponseAdvertises /\ hs.up.conn.compression
  /\ hs.up.conn.made /\ hs.dial.conn.made
       => hs.up.conn.compression = hs.dial.conn.compression

(***************************************************************************)
(* Properties of the reconnect policy                                      *)
(***************************************************************************)
IsRecoverableReturned == dec.fn = "IsRecoverable" /\ dec.returned

\* C31: IsRecoverable returns true exactly for 1001, 1006, 1011, 1012,
\* 1013, 1014 and every code from 4000 on, and false for every other code.
C31_RecoverableCodes ==
  IsRecoverableReturned =>
    (dec.result <=> \/ dec.code \in {1001, 1006, 1011, 1012, 1013, 1014}
                    \/ dec.code >= 4000)

\* C31 (amended): IsRecoverable returns true exactly for 1001, 1005, 1006,
\* 1011, 1012, 1013, 1014 and every code from 4000 on.
C31_Amended ==
  IsRecoverableReturned =>
    (dec.result <=> \/ dec.code \in {1001, 1005, 1006, 1011, 1012, 1013, 1014}
                    \/ dec.code >= 4000)

C31_Witness ==
  IsRecoverableReturned /\ dec.code = CloseNoStatusReceived /\ dec.result

ShouldReconnectReturned == dec.fn = "shouldReconnect" /\ dec.returned

Exhausted == dec.cfg.MaxAttempts > 0 /\ dec.attempts >= dec.cfg.MaxAttempts

IsFrame(x) == x.op \notin {"EOF", "timeout"}

\* the errors frame x has earned from the parser
FrameRejections(x) ==
  {e \in {"ErrInvalidFrame", "ErrUnsupportedFrameType",
          "ErrFragmentedControlFrame"} :
     \/ e = "ErrInvalidFrame" /\ x.rsv1 /\ ~compression
     \/ e = "ErrUnsupportedFrameType" /\ x.op \in {"reserved3", "reserved11"}
     \/ e = "ErrFragmentedControlFrame" /\ x.op \in ControlOps /\ ~x.fin}

\* C34: a frame with a reserved bit set on a connection without
\* compression, a frame with an opcode outside 0, 1, 2, 8, 9, 10 and a
\* control frame without fin are rejected with ErrInvalidFrame,
\* ErrUnsupportedFrameType and ErrFragmentedControlFrame, before any byte of
\* their payload is read.
C34_HeaderRejections ==
  (ReadReturned /\ IsFrame(LastFrame) /\ FrameRejections(LastFrame) # {}) =>
    /\ rret.err \in FrameRejections(LastFrame)
    /\ payloadRead(LastFrame) = 0

OversizedControl(f) ==
  f.op \in ControlOps /\ Len(f.payload) > MaxControlPayload

\* C35: a control frame with a payload over the limit is never accepted
\* from the peer - the Read that meets it fails on it - and the connection
\* never writes one.
C35_ControlPayloadLimit ==
  /\ \A i \in 1..Len(rd.frames) :
       OversizedControl(rd.frames[i]) =>
         /\ i = Len(rd.frames)
         /\ kpc["rd"] = "idle"
         /\ rret.err \notin {"nil", "none"}
  /\ ~OversizedControl(rd.ctl)
  /\ \A i \in 1..Len(wire) : ~OversizedControl(wire[i])

(***************************************************************************)
(* Properties of the client's connections                                  *)
(***************************************************************************)
\* connection k was closed by a close frame of the peer: Read set its
\* closed flag and its close code, nobody closed its transport
PeerClosed(k) == k # 0 /\ connClosed[k] /\ ~connNetClosed[k]

\* C36: when the peer has closed the connection with a close code that is
\* not recoverable, handleDisconnect ends in Disconnected and starts no
\* reconnect task.
C36_NoReconnectAfterNormalClose ==
  [][\A l \in RLoops :
       (/\ rlpc[l] = "hd2"
        /\ rlpc'[l] # "hd2"
        /\ PeerClosed(nconn)
        /\ ~IsRecoverable(connCloseCode[nconn]))
         => state' = "Disconnected" /\ tpc' = tpc /\ wg' = wg]_vars

\* connection k is open: nobody has closed it, neither Conn.Close nor a
\* close frame of the peer
ConnOpen(k) == ~connClosed[k] /\ ~connNetClosed[k]

\* C37: every connection the client has dialed is the installed one or has
\* been closed, and once Close has returned no dialed connection is open.
C37_NoConnectionLeaked ==
  /\ \A k \in 1..nconn : k = conn \/ ~ConnOpen(k)
  /\ clpc = "done" => \A k \in 1..nconn : ~ConnOpen(k)

(***************************************************************************)
(* Properties of the queued writes of the client                           *)
(***************************************************************************)
\* the accepted entries still in the queue whose result channel carries
\* nothing
Unsignalled == {k \in QueuedIds : errCh[k] = <<>>}

\* no task is between installing a connection and the end of its flush
FlushFinished == \A t \in DOMAIN tpc : tpc[t] \notin {"installed", "flush", "flushloop"}

\* C38: once the client is Connected and the flush has finished, and once
\* Close has returned, no accepted entry is left in the queue with its
\* result channel unsignalled.
C38_NoEntryLeftUnsignalled ==
  hasQueue =>
    /\ (state = "Connected" /\ FlushFinished) => Unsignalled = {}
    /\ clpc = "done" => Unsignalled = {}

(***************************************************************************)
(* Properties of the tasks of a closing client                             *)
(***************************************************************************)
\* the tasks that begin a dial in this step
DialStarts == {t \in DOMAIN tpc : tpc[t] # "dial" /\ tpc'[t] = "dial"}

\* C39: once Close has set Closing no reconnect task is started and no dial
\* is begun, and once Close has returned no background task is running.
C39_NoTaskAfterClosing ==
  [][/\ clpc # "none" => (RunningReconnects' \subseteq RunningReconnects /\ DialStarts = {})
     /\ clpc = "done" => LiveTasks = {}]_vars

(***************************************************************************)
(* Properties of the installed connection                                  *)
(***************************************************************************)
\* a Write finds no connection installed and returns ErrConnectionClosed
FindsNoConn(w) ==
  /\ wpc[w] = "direct"
  /\ wpc'[w] = "idle"
  /\ wvia'[w] = "none"
  /\ wret'[w] = "ErrConnectionClosed"

\* C40: whenever the state is Connected a connection is installed, so no
\* Write finds the connection missing while the state is Connected.
C40_ConnectedHasConn ==
  /\ [](state = "Connected" => conn # 0)
  /\ [][\A w \in Writers : FindsNoConn(w) => state # "Connected"]_vars

====
